---- MODULE Spec2Model ----
(***************************************************************************)
(* The rule converters of thecrowler-rules-converters: five independent    *)
(* batch programs (static-table TechJSON, category-aware TechJSON,         *)
(* BuiltWith JSON, favicon CSV, ModSecurity lines) that read one input     *)
(* file, build rulesets in memory and write YAML files.                    *)
(*                                                                         *)
(* Go strings are TLA+ strings; Go slices are sequences; Go maps are       *)
(* functions, and a `range` over a map visits its keys in any order.       *)
(***************************************************************************)
EXTENDS Integers, Sequences, FiniteSets, TLC

VARIABLES
    conv,          \* which converter this run is
    technologies,  \* decoded input: technology name -> record (JSON converters)
    categories,    \* decoded input: category code -> [Name] (category-aware converter)
    lines,         \* the input file's lines (favicon, ModSecurity)
    pc,            \* position of main
    todo,          \* technology names the outer range loop has not visited yet
    cur,           \* technology name of the current outer iteration
    rule,          \* the DetectionRule createRule returned for cur
    catIdx,        \* index of the next category code of cur
    rulesets,      \* map category name -> Ruleset (multi-bucket converters)
    ruleset,       \* the single Ruleset (favicon, ModSecurity)
    lineIdx,       \* number of lines the scanner has returned
    pending,       \* buckets the emission loop has not written yet
    disk,          \* output directory: file path -> what the file holds
    outPath,       \* value of the output directory flag
    visited,       \* the (name, rule) pairs the range loop has delivered, in order
    now            \* wall clock read by time.Now()

vars == <<conv, technologies, categories, lines, pc, todo, cur, rule, catIdx,
          rulesets, ruleset, lineIdx, pending, disk, outPath, visited, now>>

(***************************************************************************)
(* Bounds of the model.                                                    *)
(***************************************************************************)
MaxCats  == 2   \* longest category list of a technology record
MaxItems == 2   \* longest JSON array inside a meta field
MaxLines == 3   \* longest line-oriented input file

(***************************************************************************)
(* The string library calls the converters make.                           *)
(***************************************************************************)
Upper == "ABCDEFGHIJKLMNOPQRSTUVWXYZ"
Lower == "abcdefghijklmnopqrstuvwxyz"
Digits == "0123456789"

CharAt(s, i) == SubSeq(s, i, i)

From(s, i) == SubSeq(s, i, Len(s))

Contains(set, c) == \E i \in 1..Len(set) : CharAt(set, i) = c

ToLowerChar(c) ==
    IF Contains(Upper, c)
    THEN CharAt(Lower, CHOOSE i \in 1..Len(Upper) : CharAt(Upper, i) = c)
    ELSE c

\* A recursive operator on strings binds its argument to its value first
\* (CHOOSE over a singleton), so that the argument is evaluated once and
\* not once for each of its occurrences at each level of the recursion.
RECURSIVE ToLower(_)
ToLower(str) ==
    CHOOSE r \in {IF s = "" THEN ""
                  ELSE ToLowerChar(CharAt(s, 1)) \o ToLower(From(s, 2)) :
                  s \in {str}} : TRUE

HasPrefix(s, prefix) ==
    Len(s) >= Len(prefix) /\ SubSeq(s, 1, Len(prefix)) = prefix

\* strings.ReplaceAll for a non-empty old: non-overlapping matches, left to right.
RECURSIVE ReplaceAll(_, _, _)
ReplaceAll(str, old, new) ==
    CHOOSE r \in {IF s = "" THEN ""
                  ELSE IF HasPrefix(s, old)
                       THEN new \o ReplaceAll(From(s, Len(old) + 1), old, new)
                       ELSE CharAt(s, 1) \o ReplaceAll(From(s, 2), old, new) :
                  s \in {str}} : TRUE

RECURSIVE TrimLeft(_, _)
TrimLeft(str, cutset) ==
    CHOOSE r \in {IF s # "" /\ Contains(cutset, CharAt(s, 1))
                  THEN TrimLeft(From(s, 2), cutset) ELSE s :
                  s \in {str}} : TRUE

RECURSIVE TrimRight(_, _)
TrimRight(str, cutset) ==
    CHOOSE r \in {IF s # "" /\ Contains(cutset, CharAt(s, Len(s)))
                  THEN TrimRight(SubSeq(s, 1, Len(s) - 1), cutset) ELSE s :
                  s \in {str}} : TRUE

Trim(s, cutset) == TrimRight(TrimLeft(s, cutset), cutset)

\* The orders in which a range loop can visit the keys of a map.
RangeOrders(m) ==
    LET keys == DOMAIN m
    IN  {ord \in [1..Cardinality(keys) -> keys] :
            \A i, j \in 1..Cardinality(keys) : i # j => ord[i] # ord[j]}

(***************************************************************************)
(* Converters.                                                             *)
(***************************************************************************)
TechJSON  == "convertTechJSON"      \* static category table
TechCat   == "convertTechJSONCat"   \* categories read from the input
BuiltWith == "convertBuiltWith"
Favicon   == "convertFavicon"
ModSec    == "convertModSecurity"

TechConverters  == {TechJSON, TechCat}
MultiBucket     == {TechJSON, TechCat, BuiltWith}
SingleBucket    == {Favicon, ModSec}
Converters      == MultiBucket \cup SingleBucket

(***************************************************************************)
(* A decoded JSON value of type interface{}: what encoding/json puts into  *)
(* Technology.Meta.  t is the dynamic type, v the value.                   *)
(***************************************************************************)
JNull    == [t |-> "nil"]
JStr(s)  == [t |-> "string", v |-> s]
JNum(n)  == [t |-> "float64", v |-> n]
JBool(b) == [t |-> "bool", v |-> b]
JArr(a)  == [t |-> "[]interface{}", v |-> a]
JObj(m)  == [t |-> "map[string]interface{}", v |-> m]

(***************************************************************************)
(* createRule of the category-aware TechJSON converter.                    *)
(***************************************************************************)
\* RuleNameOf without strings.ToLower.
RuleNameAsTyped(name) == "detect_" \o ReplaceAll(name, " ", "_")

RuleNameOf(name) == "detect_" \o ToLower(ReplaceAll(name, " ", "_"))

\* One HTTPHeaderField per entry of a headers or cookies map, in range order.
\* HeaderFields with the loop left after its first entry.
HeaderFieldsFirstOnly(m, ord) ==
    [i \in 1..(IF Len(ord) > 0 THEN 1 ELSE 0) |->
        [Key |-> ord[i], Value |-> <<m[ord[i]]>>, Confidence |-> 10]]

HeaderFields(m, ord) ==
    [i \in 1..Len(ord) |->
        [Key |-> ord[i], Value |-> <<m[ord[i]]>>, Confidence |-> 10]]

\* The string elements of a []interface{}, in order.
RECURSIVE StringItems(_)
StringItems(val) ==
    IF val = <<>> THEN <<>>
    ELSE (IF Head(val).t = "string" THEN <<Head(val).v>> ELSE <<>>)
         \o StringItems(Tail(val))

\* MetaTagsOf with a default case that falls through to an empty meta tag.
MetaTagsOfDefaultEmits(k, v) ==
    CASE v.t = "string" ->
            <<[Name |-> k, Content |-> <<v.v>>, Confidence |-> 10]>>
      [] v.t = "[]interface{}" ->
            <<[Name |-> k, Content |-> StringItems(v.v), Confidence |-> 10]>>
      [] OTHER -> <<[Name |-> k, Content |-> <<>>, Confidence |-> 10]>>

\* The inner type switch on one value of a meta map.
MetaTagsOf(k, v) ==
    CASE v.t = "string" ->
            <<[Name |-> k, Content |-> <<v.v>>, Confidence |-> 10]>>
      [] v.t = "[]interface{}" ->
            <<[Name |-> k, Content |-> StringItems(v.v), Confidence |-> 10]>>
      [] OTHER -> <<>>

RECURSIVE MetaTagsOfMap(_, _)
MetaTagsOfMap(meta, ord) ==
    IF ord = <<>> THEN <<>>
    ELSE MetaTagsOf(Head(ord), meta[Head(ord)]) \o MetaTagsOfMap(meta, Tail(ord))

\* The outer type switch on details.Meta.
MetaTagsFor(meta, ord) ==
    IF meta.t = "map[string]interface{}" THEN MetaTagsOfMap(meta.v, ord) ELSE <<>>

\* The orders in which the range over a meta map can visit its keys.
MetaOrders(meta) ==
    IF meta.t = "map[string]interface{}" THEN RangeOrders(meta.v) ELSE {<<>>}

\* ContentPatterns with the Confidence field left at its zero value.
ContentPatternsUnrated(key, patterns) ==
    [i \in 1..Len(patterns) |->
        [Key |-> key, Attribute |-> "", Signature |-> <<patterns[i]>>,
         Text |-> <<>>, Confidence |-> 0]]

ContentPatterns(key, patterns) ==
    [i \in 1..Len(patterns) |->
        [Key |-> key, Attribute |-> "", Signature |-> <<patterns[i]>>,
         Text |-> <<>>, Confidence |-> 10]]

URLSignatures(patterns) ==
    [i \in 1..Len(patterns) |-> [Signature |-> patterns[i], Confidence |-> 10]]

AttributePattern(key, attribute, website) ==
    [Key |-> key, Attribute |-> attribute, Signature |-> <<website>>,
     Text |-> <<>>, Confidence |-> 10]

\* The page-content signatures the category-aware converter adds for a website.
WebsitePatternsCat(website) ==
    IF website = "" THEN <<>>
    ELSE <<AttributePattern("a", "href", website),
           AttributePattern("link", "href", website),
           AttributePattern("script", "src", website)>>

\* The page-content signatures the static-table converter adds for a website.
WebsitePatternsStatic(website) ==
    IF website = "" THEN <<>>
    ELSE <<AttributePattern("a", "href", website)>>

WebsiteURL(website) ==
    IF website = "" THEN <<>> ELSE <<[Signature |-> website, Confidence |-> 10]>>

createRuleCat(name, details, hOrd, cOrd, mOrd) ==
    [RuleName   |-> RuleNameOf(name),
     ObjectName |-> name,
     Implies    |-> details.Implies,
     HTTPHeaderFields |->
         HeaderFields(details.Headers, hOrd) \o HeaderFields(details.Cookies, cOrd),
     MetaTags   |-> MetaTagsFor(details.Meta, mOrd),
     PageContentPatterns |->
         ContentPatterns("html", details.Html)
         \o ContentPatterns("script", details.Scripts)
         \o WebsitePatternsCat(details.Website),
     SSLSignatures |-> <<>>,
     URLPatterns |-> URLSignatures(details.URL) \o WebsiteURL(details.Website)]

createRuleStatic(name, details, hOrd, cOrd, mOrd) ==
    [RuleName   |-> RuleNameOf(name),
     ObjectName |-> name,
     Implies    |-> details.Implies,
     HTTPHeaderFields |->
         HeaderFields(details.Headers, hOrd) \o HeaderFields(details.Cookies, cOrd),
     MetaTags   |-> MetaTagsFor(details.Meta, mOrd),
     PageContentPatterns |->
         ContentPatterns("html", details.Html)
         \o ContentPatterns("script", details.Scripts)
         \o WebsitePatternsStatic(details.Website),
     SSLSignatures |-> <<>>,
     URLPatterns |-> URLSignatures(details.URL) \o WebsiteURL(details.Website)]

(***************************************************************************)
(* createRule of the BuiltWith converter.                                  *)
(***************************************************************************)
\* createRuleBW with the HTML pattern put in the substring list of the
\* signature.
createRuleBWSubstring(name, details, hOrd) ==
    [RuleName   |-> RuleNameOf(name),
     ObjectName |-> name,
     Implies    |-> details.Implies,
     HTTPHeaderFields |-> HeaderFields(details.Patterns.Headers, hOrd),
     MetaTags   |-> <<>>,
     PageContentPatterns |->
         IF details.Patterns.HTML = "" THEN <<>>
         ELSE <<[Key |-> "body", Attribute |-> "",
                 Signature |-> <<details.Patterns.HTML>>,
                 Text |-> <<>>, Confidence |-> 10]>>,
     URLPatterns |->
         IF details.Patterns.URL = "" THEN <<>>
         ELSE <<[Signature |-> details.Patterns.URL, Confidence |-> 10]>>]

createRuleBW(name, details, hOrd) ==
    [RuleName   |-> RuleNameOf(name),
     ObjectName |-> name,
     Implies    |-> details.Implies,
     HTTPHeaderFields |-> HeaderFields(details.Patterns.Headers, hOrd),
     MetaTags   |-> <<>>,
     PageContentPatterns |->
         IF details.Patterns.HTML = "" THEN <<>>
         ELSE <<[Key |-> "body", Attribute |-> "", Signature |-> <<>>,
                 Text |-> <<details.Patterns.HTML>>, Confidence |-> 10]>>,
     URLPatterns |->
         IF details.Patterns.URL = "" THEN <<>>
         ELSE <<[Signature |-> details.Patterns.URL, Confidence |-> 10]>>]

(***************************************************************************)
(* createFaviconRule.                                                      *)
(***************************************************************************)
\* createFaviconRule with the identifier taken for the hash.
createFaviconRuleOfId(id, md5hash, description) ==
    [RuleName   |-> "detect_" \o ToLower(ReplaceAll(description, " ", "_")),
     ObjectName |-> description,
     Implies    |-> <<>>,
     HTTPHeaderFields |-> <<>>,
     MetaTags   |-> <<>>,
     PageContentPatterns |->
         <<[Key |-> "", Attribute |-> "", Signature |-> <<>>, Text |-> <<>>,
            MD5Hash |-> <<id>>, Confidence |-> 10]>>,
     SSLSignatures |-> <<>>]

createFaviconRule(id, md5hash, description) ==
    [RuleName   |-> "detect_" \o ToLower(ReplaceAll(description, " ", "_")),
     ObjectName |-> description,
     Implies    |-> <<>>,
     HTTPHeaderFields |-> <<>>,
     MetaTags   |-> <<>>,
     PageContentPatterns |->
         <<[Key |-> "", Attribute |-> "", Signature |-> <<>>, Text |-> <<>>,
            MD5Hash |-> <<md5hash>>, Confidence |-> 10]>>,
     SSLSignatures |-> <<>>]

(***************************************************************************)
(* The ModSecurity converter: regular expressions of parseModSecurityRule. *)
(* Each one but the action's is a literal, one capturing group (class)+    *)
(* and a closing literal; FindStringSubmatch returns the leftmost match    *)
(* as <<whole match, group>>, or the empty sequence when there is none.    *)
(***************************************************************************)
InClass(c, set, negated) ==
    IF negated THEN ~Contains(set, c) ELSE Contains(set, c)

\* Length of the longest prefix of s whose characters are all in the class.
Span(s, set, negated) ==
    CHOOSE n \in 0..Len(s) :
        /\ \A j \in 1..n : InClass(CharAt(s, j), set, negated)
        /\ n = Len(s) \/ ~InClass(CharAt(s, n + 1), set, negated)

MatchAt(s, lit, set, negated, close) ==
    IF ~HasPrefix(s, lit) THEN <<>>
    ELSE CHOOSE m \in {IF n >= 1 /\ HasPrefix(From(rest, n + 1), close)
                       THEN <<lit \o SubSeq(rest, 1, n) \o close, SubSeq(rest, 1, n)>>
                       ELSE <<>> :
                       rest \in {From(s, Len(lit) + 1)},
                       n \in {Span(From(s, Len(lit) + 1), set, negated)}} : TRUE

\* The match at the leftmost position that has one.
FindStringSubmatch(str, lit, set, negated, close) ==
    CHOOSE m \in {IF at = {} THEN <<>>
                  ELSE MatchAt(From(s, CHOOSE i \in at : \A j \in at : i <= j),
                               lit, set, negated, close) :
                  s \in {str},
                  at \in {{i \in 1..Len(str) :
                             MatchAt(From(str, i), lit, set, negated, close) # <<>>}}} :
        TRUE

WordChars == Upper \o Lower \o Digits \o "_"

IsWordAt(s, i) == i >= 1 /\ i <= Len(s) /\ Contains(WordChars, CharAt(s, i))

\* \b holds between positions i-1 and i of s.
WordBoundary(s, i) == IsWordAt(s, i - 1) # IsWordAt(s, i)

\* `\b(deny|allow|log)\b`
FindAction(s) ==
    LET hits == {h \in (1..Len(s)) \X {"deny", "allow", "log"} :
                    /\ h[1] + Len(h[2]) - 1 <= Len(s)
                    /\ SubSeq(s, h[1], h[1] + Len(h[2]) - 1) = h[2]
                    /\ WordBoundary(s, h[1])
                    /\ WordBoundary(s, h[1] + Len(h[2]))}
    IN  IF hits = {} THEN <<>>
        ELSE LET first == CHOOSE h \in hits : \A g \in hits : h[1] <= g[1]
             IN  <<first[2], first[2]>>

\* `if len(matches) > 1 { field = matches[1] }`, the field being "" before.
Submatch(matches) == IF Len(matches) > 1 THEN matches[2] ELSE ""

parseModSecurityRule(line) ==
    [ID        |-> Submatch(FindStringSubmatch(line, "id:", Digits, FALSE, "")),
     Phase     |-> Submatch(FindStringSubmatch(line, "phase:", Digits, FALSE, "")),
     Action    |-> Submatch(FindAction(line)),
     Status    |-> Submatch(FindStringSubmatch(line, "status:", Digits, FALSE, "")),
     Message   |-> Submatch(FindStringSubmatch(line, "msg:'", "'", TRUE, "'")),
     UserAgent |-> Submatch(FindStringSubmatch(line,
                       "REQUEST_HEADERS:User-Agent \"", "\"", TRUE, "\"")),
     Headers   |-> <<>>]

createDetectionRuleFromModSecurity(modsecRule) ==
    [RuleName   |-> "detect_modsec_rule_" \o modsecRule.ID,
     ObjectName |-> "ModSecurity Rule " \o modsecRule.ID,
     HTTPHeaderFields |->
         <<[Key |-> "User-Agent", Value |-> <<modsecRule.UserAgent>>,
            Confidence |-> 10]>>]

\* `strings.HasPrefix(line, "#") || len(line) == 0`
SkippedLine(line) == HasPrefix(line, "#") \/ Len(line) = 0

\* ModSecRulesOf without the `modsecRule.UserAgent != ""` test.
ModSecRulesOfAnyLine(line) ==
    IF SkippedLine(line) THEN <<>>
    ELSE <<createDetectionRuleFromModSecurity(parseModSecurityRule(line))>>

\* The rules one iteration of the ModSecurity scan loop appends.
ModSecRulesOf(line) ==
    IF SkippedLine(line) THEN <<>>
    ELSE CHOOSE rules \in {IF modsecRule.UserAgent # ""
                           THEN <<createDetectionRuleFromModSecurity(modsecRule)>>
                           ELSE <<>> :
                           modsecRule \in {parseModSecurityRule(line)}} : TRUE

(***************************************************************************)
(* The favicon converter: csv.Reader.Read on one line (Comma ',', no lazy  *)
(* quotes).  The result is [err, fields].                                  *)
(***************************************************************************)
IndexOf(s, c) ==
    IF \E i \in 1..Len(s) : CharAt(s, i) = c
    THEN CHOOSE i \in 1..Len(s) :
            CharAt(s, i) = c /\ \A j \in 1..(i - 1) : CharAt(s, j) # c
    ELSE 0

CsvError == [err |-> TRUE, fields |-> <<>>]

CsvPrepend(field, rest) ==
    IF rest.err THEN CsvError ELSE [err |-> FALSE, fields |-> <<field>> \o rest.fields]

RECURSIVE CsvField(_)
RECURSIVE CsvQuoted(_, _)

\* A field that starts at the beginning of `line`.
CsvField(str) ==
    CHOOSE r \in {
        IF line = "" \/ CharAt(line, 1) # "\""
        THEN LET field == IF i > 0 THEN SubSeq(line, 1, i - 1) ELSE line
             IN  IF IndexOf(field, "\"") > 0 THEN CsvError      \* bare quote
                 ELSE IF i > 0 THEN CsvPrepend(field, CsvField(From(line, i + 1)))
                 ELSE [err |-> FALSE, fields |-> <<field>>]
        ELSE CsvQuoted(From(line, 2), "") :
        line \in {str}, i \in {IndexOf(str, ",")}} : TRUE

\* Inside a quoted field: `line` is what follows, `acc` what the field holds.
CsvQuoted(str, field) ==
    CHOOSE r \in {
        IF i = 0 THEN CsvError                              \* no closing quote
        ELSE LET rest == From(line, i + 1)
                 got  == acc \o SubSeq(line, 1, i - 1)
             IN  CASE HasPrefix(rest, "\"") -> CsvQuoted(From(rest, 2), got \o "\"")
                   [] HasPrefix(rest, ",")  -> CsvPrepend(got, CsvField(From(rest, 2)))
                   [] rest = ""             -> [err |-> FALSE, fields |-> <<got>>]
                   [] OTHER                 -> CsvError :   \* quote inside the field
        line \in {str}, acc \in {field}, i \in {IndexOf(str, "\"")}} : TRUE

csvRead(line) == CsvField(line)

\* The rules one iteration of the favicon scan loop appends.
FaviconRulesOf(line) ==
    IF SkippedLine(line) THEN <<>>
    ELSE LET rec == csvRead(line)
         IN  IF rec.err THEN <<>>
             ELSE IF Len(rec.fields) # 3 THEN <<>>
             ELSE <<createFaviconRule(Trim(rec.fields[1], "\""),
                                      Trim(rec.fields[2], "\""),
                                      Trim(rec.fields[3], "\""))>>

(***************************************************************************)
(* Category tables.                                                        *)
(***************************************************************************)
categoryMappings ==
       ("1" :> "cms")
    @@ ("3" :> "web_frameworks")
    @@ ("4" :> "documentation")
    @@ ("5" :> "widgets")
    @@ ("6" :> "ecommerce")
    @@ ("8" :> "miscellaneous")
    @@ ("9" :> "payment_processors")
    @@ ("10" :> "analytics")
    @@ ("11" :> "blogging_platforms")
    @@ ("12" :> "javascript_frameworks")
    @@ ("13" :> "advertising")
    @@ ("14" :> "video_players")
    @@ ("15" :> "captchas")
    @@ ("16" :> "security")
    @@ ("17" :> "databases")
    @@ ("18" :> "web_frameworks")
    @@ ("19" :> "javascript_libraries")
    @@ ("20" :> "editors")
    @@ ("21" :> "learning_management_systems")
    @@ ("22" :> "web_servers")
    @@ ("23" :> "search_engines")
    @@ ("24" :> "development")
    @@ ("25" :> "augmented_reality")
    @@ ("26" :> "file_sharing")
    @@ ("27" :> "rich_media")
    @@ ("28" :> "operating_systems")
    @@ ("29" :> "search_engines")
    @@ ("30" :> "load_balancers")
    @@ ("31" :> "cdns")
    @@ ("32" :> "marketing_automation")
    @@ ("33" :> "crm")
    @@ ("34" :> "tag_managers")
    @@ ("35" :> "translation_tools")
    @@ ("36" :> "advertising_networks")
    @@ ("41" :> "payment_processors")
    @@ ("42" :> "tag_managers")
    @@ ("44" :> "personalization")
    @@ ("46" :> "dmps")
    @@ ("47" :> "cloud_platforms")
    @@ ("48" :> "testing_tools")
    @@ ("49" :> "static_site_generators")
    @@ ("50" :> "feedback_and_surveys")
    @@ ("51" :> "portfolio_builders")
    @@ ("52" :> "live_chat")
    @@ ("53" :> "document_management_systems")
    @@ ("54" :> "seo")
    @@ ("55" :> "accounting")
    @@ ("56" :> "ssl_certificates")
    @@ ("57" :> "container_platforms")
    @@ ("58" :> "voice_platforms")
    @@ ("59" :> "animation_libraries")
    @@ ("60" :> "calendar")
    @@ ("62" :> "cloud_platforms")
    @@ ("63" :> "storage")
    @@ ("64" :> "dns")
    @@ ("65" :> "audio_libraries")
    @@ ("66" :> "performance")
    @@ ("67" :> "consent_management")
    @@ ("68" :> "accessibility")
    @@ ("69" :> "identity_management")
    @@ ("70" :> "certificates")
    @@ ("71" :> "affiliate_programs")
    @@ ("72" :> "scheduling")
    @@ ("73" :> "page_builders")
    @@ ("74" :> "a_b_testing")
    @@ ("75" :> "email_marketing")
    @@ ("76" :> "personalization")
    @@ ("77" :> "dmps")
    @@ ("78" :> "performance")
    @@ ("79" :> "anti_tracking")
    @@ ("80" :> "themes")
    @@ ("83" :> "cryptominers")
    @@ ("84" :> "data_management_platforms")
    @@ ("85" :> "media_servers")
    @@ ("86" :> "customer_data_platforms")
    @@ ("87" :> "wordpress_plugins")
    @@ ("88" :> "web_hosting")
    @@ ("89" :> "learning_management_systems")
    @@ ("90" :> "reviews")
    @@ ("91" :> "buy_now_pay_later")
    @@ ("92" :> "page_speed_optimizers")
    @@ ("93" :> "business_intelligence")
    @@ ("94" :> "referrals")
    @@ ("95" :> "digital_asset_management")
    @@ ("96" :> "webmail")
    @@ ("97" :> "customer_data_platforms")
    @@ ("98" :> "container_management")
    @@ ("99" :> "performance_monitoring")
    @@ ("100" :> "form_builders")
    @@ ("101" :> "documentation")
    @@ ("102" :> "return_management")
    @@ ("103" :> "cobrowsing")
    @@ ("104" :> "website_builders")
    @@ ("105" :> "augmented_reality")
    @@ ("106" :> "content_delivery_networks")
    @@ ("107" :> "order_management")
    @@ ("108" :> "anti_fraud")
    @@ ("109" :> "marketing_intelligence")
    @@ ("110" :> "form_builders")
    @@ ("111" :> "donation_management")

categoryMappingsBW == (1 :> "cms") @@ (2 :> "web_frameworks")

\* `category, exists := table[cat]`: the comma-ok lookup, as a sequence of
\* zero or one category names.
LookupStatic(cat) ==
    IF cat \in DOMAIN categoryMappings THEN <<categoryMappings[cat]>> ELSE <<>>

LookupCat(cats, cat) ==
    IF cat \in DOMAIN cats THEN <<cats[cat].Name>> ELSE <<>>

LookupBW(cat) ==
    IF cat \in DOMAIN categoryMappingsBW THEN <<categoryMappingsBW[cat]>> ELSE <<>>

Lookup(c, cats, cat) ==
    CASE c = TechJSON  -> LookupStatic(cat)
      [] c = TechCat   -> LookupCat(cats, cat)
      [] c = BuiltWith -> LookupBW(cat)

(***************************************************************************)
(* Rulesets.                                                               *)
(***************************************************************************)
\* time.Now().Format(time.RFC3339) at instant t of the run.
RFC3339(t) == "2024-05-01T10:00:0" \o CharAt(Digits, t + 1) \o "Z"

RuleGroup(groupName) ==
    [GroupName |-> groupName, IsEnabled |-> TRUE, DetectionRules |-> <<>>]

NewRulesetStatic(category, t) ==
    [RulesetName   |-> "detect_" \o category \o "_ruleset",
     FormatVersion |-> "1.0.4",
     Author        |-> "Your Name",
     CreatedAt     |-> RFC3339(t),
     Description   |-> "Ruleset to detect " \o ReplaceAll(category, "_", " ")
                        \o " technologies.",
     RuleGroups    |-> <<RuleGroup("detect_web_technologies_" \o category)>>]

NewRulesetCat(category, t) ==
    [RulesetName   |-> "detect_" \o ReplaceAll(category, " ", "_") \o "_ruleset",
     FormatVersion |-> "1.0.4",
     Author        |-> "Your Name",
     CreatedAt     |-> RFC3339(t),
     Description   |-> "Ruleset to detect " \o ReplaceAll(category, "_", " ")
                        \o " technologies.",
     RuleGroups    |-> <<RuleGroup("detect_web_technologies_" \o category)>>]

NewRulesetBW(category, t) ==
    [RulesetName   |-> "detect_" \o category \o "_ruleset",
     FormatVersion |-> "1.0.4",
     Author        |-> "Your Name",
     CreatedAt     |-> RFC3339(t),
     Description   |-> "Ruleset to detect " \o ReplaceAll(category, "_", " ")
                        \o " technologies.",
     RuleGroups    |-> <<RuleGroup("detect_web_technologies")>>]

NewRuleset(c, category, t) ==
    CASE c = TechJSON  -> NewRulesetStatic(category, t)
      [] c = TechCat   -> NewRulesetCat(category, t)
      [] c = BuiltWith -> NewRulesetBW(category, t)

FaviconRuleset(t) ==
    [RulesetName   |-> "detect_favicon_hashes",
     FormatVersion |-> "1.0.4",
     Author        |-> "Your Name",
     CreatedAt     |-> RFC3339(t),
     Description   |-> "Ruleset to detect technologies using favicon MD5 hashes.",
     RuleGroups    |-> <<RuleGroup("detect_favicon_technologies")>>]

ModSecRuleset(t) ==
    [RulesetName   |-> "detect_modsecurity_rules",
     FormatVersion |-> "1.0.4",
     Author        |-> "Your Name",
     CreatedAt     |-> RFC3339(t),
     Description   |-> "Ruleset to detect ModSecurity rules.",
     RuleGroups    |-> <<RuleGroup("detect_modsecurity_rules")>>]

\* AppendRule with the rule put at the head of the list.
PrependRule(rs, r) ==
    [rs EXCEPT !.RuleGroups[1].DetectionRules = <<r>> \o @]

\* `ruleset.RuleGroups[0].DetectionRules = append(..., rule)`
AppendRule(rs, r) ==
    [rs EXCEPT !.RuleGroups[1].DetectionRules = Append(@, r)]

\* Bucketed without the `if _, ok := rulesets[category]; !ok` test: the
\* ruleset of the category is made anew for every rule.
BucketedAnew(c, cats, sets, cat, r, t) ==
    LET found == Lookup(c, cats, cat)
    IN  IF found = <<>> THEN sets
        ELSE LET category == found[1]
                 have     == [x \in DOMAIN sets \cup {category} |->
                                 IF x = category THEN NewRuleset(c, category, t)
                                 ELSE sets[x]]
             IN  [have EXCEPT ![category] = AppendRule(@, r)]

\* Bucketed with a RuleGroup of its own for every rule of a category.
BucketedNewGroup(c, cats, sets, cat, r, t) ==
    LET found == Lookup(c, cats, cat)
    IN  IF found = <<>> THEN sets
        ELSE LET category == found[1]
                 fresh    == AppendRule(NewRuleset(c, category, t), r)
             IN  IF category \in DOMAIN sets
                 THEN [sets EXCEPT ![category].RuleGroups = @ \o fresh.RuleGroups]
                 ELSE sets @@ (category :> fresh)

\* Bucketed with the append in the else branch of the
\* `if _, ok := rulesets[category]; !ok` test: a new ruleset is left empty.
BucketedCreateOnly(c, cats, sets, cat, r, t) ==
    LET found == Lookup(c, cats, cat)
    IN  IF found = <<>> THEN sets
        ELSE LET category == found[1]
             IN  IF category \in DOMAIN sets
                 THEN [sets EXCEPT ![category] = AppendRule(@, r)]
                 ELSE sets @@ (category :> NewRuleset(c, category, t))

\* The bucketing step for one category code: the map after it.
Bucketed(c, cats, sets, cat, r, t) ==
    LET found == Lookup(c, cats, cat)
    IN  IF found = <<>> THEN sets
        ELSE LET category == found[1]
                 have     == IF category \in DOMAIN sets THEN sets
                             ELSE sets @@ (category :> NewRuleset(c, category, t))
             IN  [have EXCEPT ![category] = AppendRule(@, r)]

(***************************************************************************)
(* Output file names.                                                      *)
(***************************************************************************)
\* fmt.Sprintf with string operands: %s and %v print the next operand, %%
\* prints a percent sign, any other verb prints as a bad verb, a verb with
\* no operand left as MISSING, a percent sign ending the format as NOVERB,
\* an operand left over as EXTRA.  (No format of the model holds a flag, a
\* width or one of the verbs q, x, X.)
RECURSIVE Sprintf(_, _)
Sprintf(str, operands) ==
    CHOOSE r \in {
        IF format = ""
        THEN IF a = <<>> THEN "" ELSE "%!(EXTRA string=" \o a[1] \o ")"
        ELSE IF CharAt(format, 1) # "%"
        THEN CharAt(format, 1) \o Sprintf(From(format, 2), a)
        ELSE IF Len(format) = 1
        THEN "%!(NOVERB)" \o Sprintf("", a)
        ELSE LET verb == CharAt(format, 2)
                 rest == From(format, 3)
             IN  IF verb = "%" THEN "%" \o Sprintf(rest, a)
                 ELSE IF a = <<>>
                 THEN "%!" \o verb \o "(MISSING)" \o Sprintf(rest, a)
                 ELSE IF verb \in {"s", "v"}
                 THEN Head(a) \o Sprintf(rest, Tail(a))
                 ELSE "%!" \o verb \o "(string=" \o Head(a) \o ")"
                      \o Sprintf(rest, Tail(a)) :
        format \in {str}, a \in {operands}} : TRUE

\* The three ReplaceAll calls of the category-aware emission loop.
Sanitize(category) ==
    ReplaceAll(ReplaceAll(ReplaceAll(category, " ", "-"), "/", "-"), "\\", "-")

\* `fmt.Sprintf((*outPath)+"/detect-%s-ruleset.yaml", category)`
FileNameStatic(out, category) ==
    Sprintf(out \o "/detect-%s-ruleset.yaml", <<category>>)

FileNameCat(out, category) ==
    Sprintf(out \o "/detect-%s-ruleset.yaml", <<Sanitize(category)>>)

FileNameBW(out, category) ==
    Sprintf(out \o "/detect-%s-ruleset.yaml", <<category>>)

FileName(c, out, category) ==
    CASE c = TechJSON  -> FileNameStatic(out, category)
      [] c = TechCat   -> FileNameCat(out, category)
      [] c = BuiltWith -> FileNameBW(out, category)

\* `fmt.Sprintf((*outPath) + "/detect-favicon-hashes-ruleset.yaml")`
FaviconFileName(out) == Sprintf(out \o "/detect-favicon-hashes-ruleset.yaml", <<>>)

ModSecFileName(out) == Sprintf(out \o "/detect-modsecurity-ruleset.yaml", <<>>)

(***************************************************************************)
(* Inputs.                                                                 *)
(***************************************************************************)
SeqsUpTo(S, n) == UNION {[1..k -> S] : k \in 0..n}

TechNames == {"Word Press", "jQuery-3.7_x"}

\* Category codes of the input: "2" is in no table or dictionary.
CatCodes == {"1", "2", "3", "18"}

CatCodesBW == {1, 2, 3}

\* Category dictionaries of a category-aware input.
CategoryDicts ==
    { ("1" :> [Name |-> "CMS"]) @@ ("3" :> [Name |-> "Web frameworks"])
        @@ ("18" :> [Name |-> "Web frameworks"]),
      ("1" :> [Name |-> "Web/frameworks"]) @@ ("3" :> [Name |-> "Web frameworks"])
        @@ ("18" :> [Name |-> "Web\\frameworks"]) }

WebsiteOf == "https://wp.org"

MetaItems == {JStr("x"), JStr("y"), JNum(5)}

MetaArrays == {JArr(a) : a \in SeqsUpTo(MetaItems, MaxItems)}

\* The values of a key of a meta object: a string, an array, or a value of
\* another type (number, boolean, null, nested object).
MetaValues == {JStr("x"), JNum(5), JBool(TRUE), JNull, JObj(<<>>)} \cup MetaArrays

MetaPairValues == {JStr("x"), JNum(5), JArr(<<JStr("x"), JNum(5)>>)}

\* What json.Unmarshal can leave in Technology.Meta: nothing, a value that is
\* no object, or an object of one or two keys.
MetaShapes ==
    {JNull, JStr("x"), JArr(<<JStr("x")>>), JObj(<<>>)}
    \cup {JObj(k :> v) : k \in {"generator", "author"}, v \in MetaValues}
    \cup {JObj(("generator" :> v) @@ ("author" :> w)) :
             v \in MetaPairValues, w \in MetaPairValues}

TechDetails(cats, headers, cookies, meta, patterns, website) ==
    [Cats    |-> cats,
     Cookies |-> CASE cookies = 0 -> <<>>
                   [] cookies = 1 -> ("Server" :> "x")
                   [] OTHER       -> ("Server" :> "x") @@ ("sid" :> "1"),
     Headers |-> IF headers THEN ("Server" :> "nginx") ELSE <<>>,
     Meta    |-> meta,
     Html    |-> IF patterns THEN <<"<b>">> ELSE <<>>,
     Scripts |-> IF patterns THEN <<"jq.js", "ui.js">> ELSE <<>>,
     URL     |-> IF patterns THEN <<"/wp/", WebsiteOf>> ELSE <<>>,
     Website |-> IF website THEN WebsiteOf ELSE "",
     Implies |-> IF headers THEN <<"PHP">> ELSE <<>>]

\* Records for the normalizer alone: every field varies, no categories.
WideTechDetails ==
    {TechDetails(<<>>, h, c, m, p, w) :
        h \in BOOLEAN, c \in 0..2, m \in MetaShapes, p \in BOOLEAN, w \in BOOLEAN}

BWDetails(cats, url, html, headers, implies) ==
    [Categories |-> cats,
     Patterns   |-> [URL |-> url, HTML |-> html, Headers |-> headers],
     Implies    |-> implies]

WideBWDetails ==
    {BWDetails(<<>>, u, h, hd, i) :
        u \in {"", "/wp-"}, h \in {"", "<meta wp>"},
        hd \in {<<>>, ("Server" :> "nginx"),
                ("Server" :> "nginx") @@ ("X-Powered-By" :> "PHP")},
        i \in {<<>>, <<"PHP">>}}

\* Records for whole runs: the content goes with the name, the categories vary.
RunDetails(c, name, cats) ==
    IF c = BuiltWith
    THEN IF name = "Word Press"
         THEN BWDetails(cats, "/wp-", "<meta wp>", ("Server" :> "nginx"), <<"PHP">>)
         ELSE BWDetails(cats, "", "", <<>>, <<>>)
    ELSE IF name = "Word Press"
         THEN TechDetails(cats, TRUE, 1,
                  JObj("generator" :> JArr(<<JStr("x"), JNum(5)>>)), TRUE, TRUE)
         ELSE TechDetails(cats, FALSE, 0,
                  JObj("generator" :> JArr(<<JNum(5)>>)), FALSE, TRUE)

\* The category lists of a record: up to MaxCats codes for the first
\* technology, at most one for the other.
CatLists(c, name) ==
    IF name = "Word Press"
    THEN SeqsUpTo(IF c = BuiltWith THEN CatCodesBW ELSE CatCodes, MaxCats)
    ELSE SeqsUpTo(IF c = BuiltWith THEN {2, 3} ELSE {"2", "3"}, 1)

RunInputs(c) ==
    UNION {{[name \in names |-> RunDetails(c, name, cl[name])] :
               cl \in {f \in [names -> SeqsUpTo(IF c = BuiltWith THEN CatCodesBW
                                                 ELSE CatCodes, MaxCats)] :
                          \A name \in names : f[name] \in CatLists(c, name)}} :
              names \in SUBSET TechNames}

WideInputs(c) ==
    UNION {{(name :> d) : d \in IF c = BuiltWith THEN WideBWDetails ELSE WideTechDetails} :
              name \in TechNames}

FaviconLines ==
    {"\"1\",\"abc123\",\"Drupal\"",
     "2,def456,Word  Press 2.0",
     "#3,aaa,Joomla",
     "4,bbb",
     "5,c\"c,x"}

ModSecLines ==
    {"SecRule REQUEST_HEADERS:User-Agent \"BadBot\" \"id:12345,phase:1,deny,status:403,msg:'Bad'\"",
     "SecRule REQUEST_HEADERS:User-Agent \"Scan\" \"phase:2,log\"",
     "SecRule ARGS \"x\" \"id:7,allow\"",
     "SecRule REQUEST_HEADERS:User-Agent \"\" \"id:9\"",
     "# REQUEST_HEADERS:User-Agent \"x\" id:1"}

LineInputs(c) ==
    SeqsUpTo(IF c = Favicon THEN FaviconLines ELSE ModSecLines, MaxLines)

(***************************************************************************)
(* Initial states.                                                         *)
(***************************************************************************)
\* The instants time.Now() can return once the clock has shown t.
Instants == {0, 1}

\* Values of the output directory flag.
OutPaths == {"./out", "./100%"}

Later(t) == {i \in Instants : i >= t}

NoRule == [RuleName |-> "", ObjectName |-> ""]

NoRuleset == [RulesetName |-> ""]

\* The category list of a technology record.
CatsOf(c, details) == IF c = BuiltWith THEN details.Categories ELSE details.Cats

Idle ==
    /\ todo = {}
    /\ cur = ""
    /\ rule = NoRule
    /\ catIdx = 1
    /\ rulesets = <<>>
    /\ ruleset = NoRuleset
    /\ lineIdx = 0
    /\ pending = {}
    /\ disk = <<>>
    /\ visited = <<>>
    /\ now = 0

\* A run of a JSON converter, or of a line converter, before it reads its input.
Init ==
    /\ pc = "read"
    /\ Idle
    /\ outPath \in OutPaths
    /\ \/ /\ conv \in MultiBucket
          /\ technologies \in RunInputs(conv)
          /\ categories \in IF conv = TechCat THEN CategoryDicts ELSE {<<>>}
          /\ lines = <<>>
       \/ /\ conv \in SingleBucket
          /\ technologies = <<>>
          /\ categories = <<>>
          /\ lines \in LineInputs(conv)

(***************************************************************************)
(* main of the JSON converters.                                            *)
(***************************************************************************)
Put(files, name, content) ==
    [f \in DOMAIN files \cup {name} |-> IF f = name THEN content ELSE files[f]]

\* os.ReadFile: the bytes, or log.Fatalf.
ReadFile ==
    /\ pc = "read"
    /\ conv \in MultiBucket
    /\ pc' \in {"decode", "fatal"}
    /\ UNCHANGED <<conv, outPath, visited, technologies, categories, lines,
                   todo, cur, rule, catIdx,
                   rulesets, ruleset, lineIdx, pending, disk, now>>

\* json.Unmarshal, then `rulesets := make(map[string]Ruleset)`.
Unmarshal ==
    /\ pc = "decode"
    /\ \/ /\ pc' = "range"
          /\ todo' = DOMAIN technologies
          /\ rulesets' = <<>>
       \/ /\ pc' = "fatal"
          /\ UNCHANGED <<todo, rulesets>>
    /\ UNCHANGED <<conv, outPath, visited, technologies, categories, lines,
                   cur, rule, catIdx,
                   ruleset, lineIdx, pending, disk, now>>

\* The rules createRule can return for a record: one per range order of its maps.
CreatedRules(c, name, details) ==
    CASE c = TechJSON ->
            {createRuleStatic(name, details, h, ck, m) :
                h \in RangeOrders(details.Headers),
                ck \in RangeOrders(details.Cookies),
                m \in MetaOrders(details.Meta)}
      [] c = TechCat ->
            {createRuleCat(name, details, h, ck, m) :
                h \in RangeOrders(details.Headers),
                ck \in RangeOrders(details.Cookies),
                m \in MetaOrders(details.Meta)}
      [] c = BuiltWith ->
            {createRuleBW(name, details, h) :
                h \in RangeOrders(details.Patterns.Headers)}

\* One iteration of the outer range loop, up to its inner loop.
NextTech ==
    /\ pc = "range"
    /\ \E name \in todo :
          \E r \in CreatedRules(conv, name, technologies[name]) :
             /\ cur' = name
             /\ rule' = r
             /\ todo' = todo \ {name}
             /\ catIdx' = 1
             /\ pc' = IF CatsOf(conv, technologies[name]) = <<>> THEN "range" ELSE "cats"
             /\ visited' = Append(visited, [name |-> name, rule |-> r])
    /\ UNCHANGED <<conv, outPath, technologies, categories, lines,
                   rulesets, ruleset,
                   lineIdx, pending, disk, now>>

\* BucketCat with `break` in place of `continue`: an unresolved code ends
\* the inner loop.
BucketCatBreak ==
    /\ pc = "cats"
    /\ LET cats    == CatsOf(conv, technologies[cur])
           cat     == cats[catIdx]
           found   == Lookup(conv, categories, cat)
           creates == found # <<>> /\ found[1] \notin DOMAIN rulesets
       IN  /\ \E t \in IF creates THEN Later(now) ELSE {now} :
                 /\ rulesets' = Bucketed(conv, categories, rulesets, cat, rule, t)
                 /\ now' = t
           /\ catIdx' = catIdx + 1
           /\ pc' = IF catIdx = Len(cats) \/ found = <<>> THEN "range" ELSE "cats"
    /\ UNCHANGED <<conv, outPath, visited, technologies, categories, lines,
                   todo, cur, rule,
                   ruleset, lineIdx, pending, disk>>

\* One iteration of the inner loop over the category codes of cur.
BucketCat ==
    /\ pc = "cats"
    /\ LET cats    == CatsOf(conv, technologies[cur])
           cat     == cats[catIdx]
           found   == Lookup(conv, categories, cat)
           creates == found # <<>> /\ found[1] \notin DOMAIN rulesets
       IN  /\ \E t \in IF creates THEN Later(now) ELSE {now} :
                 /\ rulesets' = Bucketed(conv, categories, rulesets, cat, rule, t)
                 /\ now' = t
           /\ catIdx' = catIdx + 1
           /\ pc' = IF catIdx = Len(cats) THEN "range" ELSE "cats"
    /\ UNCHANGED <<conv, outPath, visited, technologies, categories, lines,
                   todo, cur, rule,
                   ruleset, lineIdx, pending, disk>>

\* The range loop is over: the emission loop starts.
StartEmit ==
    /\ pc = "range"
    /\ todo = {}
    /\ pc' = "emit"
    /\ pending' = DOMAIN rulesets
    /\ UNCHANGED <<conv, outPath, visited, technologies, categories, lines,
                   todo, cur, rule, catIdx,
                   rulesets, ruleset, lineIdx, disk, now>>

\* What a file holds: a whole YAML document of a ruleset, or the part of it
\* written before the encoder failed.
(***************************************************************************)
(* The YAML document of a Ruleset.  The struct tags give every exported     *)
(* field its key; a field tagged omitempty is left out of the mapping when *)
(* it holds its zero value, a field tagged "-" always.  A mapping is a     *)
(* function of its keys, a sequence a sequence of nodes, a scalar the      *)
(* value it stands for.                                                    *)
(***************************************************************************)
Tag(field, key, omitempty, type) ==
    [field |-> field, key |-> key, omitempty |-> omitempty, type |-> type]

\* The header-field list kept out of the document (`yaml:"-"`).
HTTPHeaderFieldsTagSkipped ==
    Tag("HTTPHeaderFields", "-", FALSE, "[]HTTPHeaderField")

HTTPHeaderFieldsTag ==
    Tag("HTTPHeaderFields", "http_header_fields", TRUE, "[]HTTPHeaderField")

DetectionRuleTags(c) ==
    <<Tag("RuleName", "rule_name", FALSE, "string"),
      Tag("ObjectName", "object_name", FALSE, "string")>>
    \o (IF c = ModSec THEN <<>>
        ELSE <<Tag("Implies", "implies", TRUE, "[]string")>>)
    \o <<HTTPHeaderFieldsTag>>
    \o (IF c = ModSec THEN <<>>
        ELSE <<Tag("MetaTags", "meta_tags", TRUE, "[]MetaTag"),
               Tag("PageContentPatterns", "page_content_patterns", TRUE,
                   "[]PageContentSignature")>>)
    \o (IF c \in {TechJSON, TechCat, Favicon}
        THEN <<Tag("SSLSignatures", "ssl_patterns", TRUE, "[]SSLSignature")>>
        ELSE <<>>)
    \o (IF c \in {TechJSON, TechCat, BuiltWith}
        THEN <<Tag("URLPatterns", "url_micro_signatures", TRUE, "[]URLMicroSignature")>>
        ELSE <<>>)

Tags(c, type) ==
    CASE type = "Ruleset" ->
            <<Tag("RulesetName", "ruleset_name", FALSE, "string"),
              Tag("FormatVersion", "format_version", FALSE, "string"),
              Tag("Author", "author", FALSE, "string"),
              Tag("CreatedAt", "created_at", FALSE, "string"),
              Tag("Description", "description", FALSE, "string"),
              Tag("RuleGroups", "rule_groups", FALSE, "[]RuleGroup")>>
      [] type = "RuleGroup" ->
            <<Tag("GroupName", "group_name", FALSE, "string"),
              Tag("IsEnabled", "is_enabled", FALSE, "bool"),
              Tag("DetectionRules", "detection_rules", FALSE, "[]DetectionRule")>>
      [] type = "DetectionRule" -> DetectionRuleTags(c)
      [] type = "HTTPHeaderField" ->
            <<Tag("Key", "key", FALSE, "string"),
              Tag("Value", "value", FALSE, "[]string"),
              Tag("Confidence", "confidence", FALSE, "int")>>
      [] type = "SSLSignature" ->
            <<Tag("Key", "key", FALSE, "string"),
              Tag("Value", "value", TRUE, "[]string"),
              Tag("Confidence", "confidence", FALSE, "float32")>>
      [] type = "MetaTag" ->
            <<Tag("Name", "name", FALSE, "string"),
              Tag("Content", "content", FALSE, "[]string"),
              Tag("Confidence", "confidence", FALSE, "int")>>
      [] type = "PageContentSignature" ->
            <<Tag("Key", "key", FALSE, "string"),
              Tag("Attribute", "attribute", TRUE, "string"),
              Tag("Signature", "value", TRUE, "[]string"),
              Tag("Text", "text", TRUE, "[]string")>>
            \o (IF c = Favicon
                THEN <<Tag("MD5Hash", "md5hash", TRUE, "[]string")>>
                ELSE <<>>)
            \o <<Tag("Confidence", "confidence", FALSE, "float32")>>
      [] type = "URLMicroSignature" ->
            <<Tag("Signature", "value", FALSE, "string"),
              Tag("Confidence", "confidence", FALSE, "float32")>>

Scalars == {"string", "bool", "int", "float32"}
IsSlice(type) == HasPrefix(type, "[]")
ElemOf(type)  == From(type, 3)

\* The zero value of a type, and whether omitempty leaves a value out.
Zero(type) ==
    CASE type = "string" -> ""
      [] type = "bool"   -> FALSE
      [] type \in {"int", "float32"} -> 0
      [] OTHER -> <<>>
IsZero(type, v) == IF IsSlice(type) THEN Len(v) = 0 ELSE v = Zero(type)

\* encoder.Encode(&ruleset): the node of a value of the type.
RECURSIVE Encode(_, _, _)
Encode(c, type, v) ==
    IF type \in Scalars THEN v
    ELSE IF IsSlice(type)
    THEN [i \in 1..Len(v) |-> Encode(c, ElemOf(type), v[i])]
    ELSE LET tags == Tags(c, type)
             kept == {i \in DOMAIN tags :
                         /\ tags[i].key # "-"
                         /\ ~(tags[i].omitempty /\ IsZero(tags[i].type, v[tags[i].field]))}
         IN  [k \in {tags[i].key : i \in kept} |->
                 LET i == CHOOSE j \in kept : tags[j].key = k
                 IN  Encode(c, tags[i].type, v[tags[i].field])]

\* Decoding a node against the same struct types: a key the mapping lacks
\* leaves the field at its zero value.
RECURSIVE Decode(_, _, _)
Decode(c, type, node) ==
    IF type \in Scalars THEN node
    ELSE IF IsSlice(type)
    THEN [i \in 1..Len(node) |-> Decode(c, ElemOf(type), node[i])]
    ELSE LET tags == Tags(c, type)
         IN  [f \in {tags[i].field : i \in DOMAIN tags} |->
                 LET i == CHOOSE j \in DOMAIN tags : tags[j].field = f
                 IN  IF tags[i].key \in DOMAIN node
                     THEN Decode(c, tags[i].type, node[tags[i].key])
                     ELSE Zero(tags[i].type)]

NoDocument == <<>>
Written(rs)   == [complete |-> TRUE, ruleset |-> rs,
                  document |-> Encode(conv, "Ruleset", rs)]
Truncated(rs) == [complete |-> FALSE, ruleset |-> rs, document |-> NoDocument]

\* EmitRuleset with the Encode error logged instead of fatal: the loop goes
\* on with the next ruleset.
EmitRulesetGoesOn ==
    /\ pc = "emit"
    /\ \E category \in pending :
          LET filename == FileName(conv, outPath, category)
          IN  \/ /\ pc' = "fatal"
                 /\ UNCHANGED <<disk, pending>>
              \/ /\ pc' = "emit"
                 /\ disk' = Put(disk, filename, Truncated(rulesets[category]))
                 /\ pending' = pending \ {category}
              \/ /\ pc' = "emit"
                 /\ disk' = Put(disk, filename, Written(rulesets[category]))
                 /\ pending' = pending \ {category}
    /\ UNCHANGED <<conv, outPath, visited, technologies, categories, lines,
                   todo, cur, rule, catIdx,
                   rulesets, ruleset, lineIdx, now>>

\* One iteration of the emission loop: os.Create, then Encode.
EmitRuleset ==
    /\ pc = "emit"
    /\ \E category \in pending :
          LET filename == FileName(conv, outPath, category)
          IN  \/ /\ pc' = "fatal"                       \* os.Create fails
                 /\ UNCHANGED <<disk, pending>>
              \/ /\ pc' = "fatal"                       \* Encode fails
                 /\ disk' = Put(disk, filename, Truncated(rulesets[category]))
                 /\ UNCHANGED pending
              \/ /\ pc' = "emit"
                 /\ disk' = Put(disk, filename, Written(rulesets[category]))
                 /\ pending' = pending \ {category}
    /\ UNCHANGED <<conv, outPath, visited, technologies, categories, lines,
                   todo, cur, rule, catIdx,
                   rulesets, ruleset, lineIdx, now>>

\* Every ruleset is written: main returns.
Finish ==
    /\ pc = "emit"
    /\ pending = {}
    /\ pc' = "done"
    /\ UNCHANGED <<conv, outPath, visited, technologies, categories, lines,
                   todo, cur, rule, catIdx,
                   rulesets, ruleset, lineIdx, pending, disk, now>>

(***************************************************************************)
(* main of the line converters.                                            *)
(***************************************************************************)
\* os.Open, then the ruleset literal.
OpenFile ==
    /\ pc = "read"
    /\ conv \in SingleBucket
    /\ \/ /\ pc' = "fatal"
          /\ UNCHANGED <<ruleset, now>>
       \/ \E t \in Later(now) :
             /\ now' = t
             /\ ruleset' = IF conv = Favicon THEN FaviconRuleset(t) ELSE ModSecRuleset(t)
             /\ pc' = IF conv = Favicon THEN "header" ELSE "scan"
    /\ UNCHANGED <<conv, outPath, visited, technologies, categories, lines,
                   todo, cur, rule, catIdx,
                   rulesets, lineIdx, pending, disk>>

\* `if scanner.Scan() { }`: the favicon converter drops the first line.
SkipHeader ==
    /\ pc = "header"
    /\ lineIdx' = IF Len(lines) > 0 THEN 1 ELSE 0
    /\ pc' = "scan"
    /\ UNCHANGED <<conv, outPath, visited, technologies, categories, lines,
                   todo, cur, rule, catIdx,
                   rulesets, ruleset, pending, disk, now>>

RulesOf(c, line) == IF c = Favicon THEN FaviconRulesOf(line) ELSE ModSecRulesOf(line)

\* RulesOf, tabulated over the lines of the inputs: a line is parsed once.
LineRules ==
    [c \in SingleBucket |->
        [line \in IF c = Favicon THEN FaviconLines ELSE ModSecLines |->
            RulesOf(c, line)]]

\* ScanLine with log.Fatalf in place of log.Printf where the CSV reader
\* fails or the line has not 3 fields.
ScanLineFatal ==
    /\ pc = "scan"
    /\ lineIdx < Len(lines)
    /\ lineIdx' = lineIdx + 1
    /\ ruleset' = [ruleset EXCEPT !.RuleGroups[1].DetectionRules =
                       @ \o RulesOf(conv, lines[lineIdx + 1])]
    /\ pc' = IF /\ conv = Favicon
                /\ ~SkippedLine(lines[lineIdx + 1])
                /\ \/ csvRead(lines[lineIdx + 1]).err
                   \/ Len(csvRead(lines[lineIdx + 1]).fields) # 3
             THEN "fatal" ELSE pc
    /\ UNCHANGED <<conv, outPath, visited, technologies, categories, lines,
                   todo, cur, rule, catIdx,
                   rulesets, pending, disk, now>>

\* ScanLine with the rule of the line put before the rules of the lines
\* above it.
ScanLineNewestFirst ==
    /\ pc = "scan"
    /\ lineIdx < Len(lines)
    /\ lineIdx' = lineIdx + 1
    /\ ruleset' = [ruleset EXCEPT !.RuleGroups[1].DetectionRules =
                       RulesOf(conv, lines[lineIdx + 1]) \o @]
    /\ UNCHANGED <<conv, outPath, visited, technologies, categories, lines,
                   pc, todo, cur, rule, catIdx,
                   rulesets, pending, disk, now>>

\* One iteration of `for scanner.Scan()`.
ScanLine ==
    /\ pc = "scan"
    /\ lineIdx < Len(lines)
    /\ lineIdx' = lineIdx + 1
    /\ ruleset' = [ruleset EXCEPT !.RuleGroups[1].DetectionRules =
                       @ \o LineRules[conv][lines[lineIdx + 1]]]
    /\ UNCHANGED <<conv, outPath, visited, technologies, categories, lines,
                   pc, todo, cur, rule, catIdx,
                   rulesets, pending, disk, now>>

\* Scan returns false at the end of the input and scanner.Err() is nil.
ScanEnd ==
    /\ pc = "scan"
    /\ lineIdx = Len(lines)
    /\ pc' = "write"
    /\ UNCHANGED <<conv, outPath, visited, technologies, categories, lines,
                   todo, cur, rule, catIdx,
                   rulesets, ruleset, lineIdx, pending, disk, now>>

\* ScanError with the error logged and the run going on to write what it has.
LoggedScanError ==
    /\ pc \in {"header", "scan"}
    /\ pc' = "write"
    /\ UNCHANGED <<conv, outPath, visited, technologies, categories, lines,
                   todo, cur, rule, catIdx,
                   rulesets, ruleset, lineIdx, pending, disk, now>>

\* Scan returns false on a read error: scanner.Err() is not nil, log.Fatalf.
ScanError ==
    /\ pc \in {"header", "scan"}
    /\ pc' = "fatal"
    /\ UNCHANGED <<conv, outPath, visited, technologies, categories, lines,
                   todo, cur, rule, catIdx,
                   rulesets, ruleset, lineIdx, pending, disk, now>>

SingleFileName(c, out) ==
    IF c = Favicon THEN FaviconFileName(out) ELSE ModSecFileName(out)

\* os.Create, then Encode, of the single ruleset.
WriteRuleset ==
    /\ pc = "write"
    /\ \/ /\ pc' = "fatal"                              \* os.Create fails
          /\ UNCHANGED disk
       \/ /\ pc' = "fatal"                              \* Encode fails
          /\ disk' = Put(disk, SingleFileName(conv, outPath), Truncated(ruleset))
       \/ /\ pc' = "done"
          /\ disk' = Put(disk, SingleFileName(conv, outPath), Written(ruleset))
    /\ UNCHANGED <<conv, outPath, visited, technologies, categories, lines,
                   todo, cur, rule, catIdx,
                   rulesets, ruleset, lineIdx, pending, now>>

(***************************************************************************)
(* Specifications.                                                         *)
(***************************************************************************)
Next ==
    \/ ReadFile
    \/ Unmarshal
    \/ NextTech
    \/ BucketCat
    \/ StartEmit
    \/ EmitRuleset
    \/ Finish
    \/ OpenFile
    \/ SkipHeader
    \/ ScanLine
    \/ ScanEnd
    \/ ScanError
    \/ WriteRuleset

\* Whole runs of the five converters.
Spec == Init /\ [][Next]_vars

\* Whole runs of a process that is never suspended for ever: main is one
\* sequential goroutine and takes its next step whenever it has one.
FairSpec == Spec /\ WF_vars(Next)

\* The normalizer alone: the outer loop of a JSON converter, about to visit
\* the one record of an input whose fields vary widely.
InitRule ==
    /\ pc = "range"
    /\ conv \in MultiBucket
    /\ technologies \in WideInputs(conv)
    /\ categories \in IF conv = TechCat THEN CategoryDicts ELSE {<<>>}
    /\ lines = <<>>
    /\ todo = DOMAIN technologies
    /\ cur = ""
    /\ rule = NoRule
    /\ catIdx = 1
    /\ rulesets = <<>>
    /\ ruleset = NoRuleset
    /\ lineIdx = 0
    /\ pending = {}
    /\ disk = <<>>
    /\ outPath = "./out"
    /\ visited = <<>>
    /\ now = 0

SpecRule == InitRule /\ [][NextTech]_vars

(***************************************************************************)
(* Properties of the normalizers.                                          *)
(***************************************************************************)
\* C1: in both TechJSON converters (static table, category-aware), the rule
\* createRule returns for a record with a non-empty website holds exactly 4
\* signatures for that website: 1 URL micro-signature (beside the URL
\* patterns the record lists itself) and 3 page-content signatures, with
\* (key, attribute) = (a, href), (link, href) and (script, src).
C1_WebsiteYieldsFourSignatures ==
    (conv \in TechConverters /\ cur # "" /\ technologies[cur].Website # "") =>
        LET website      == technologies[cur].Website
            IsWebsite(u) == u.Signature = website
            Listed(p)    == p = website
            Refers(p)    == p.Signature = <<website>> /\ p.Attribute # ""
            refs         == SelectSeq(rule.PageContentPatterns, Refers)
        IN  /\ Len(SelectSeq(rule.URLPatterns, IsWebsite))
                  = 1 + Len(SelectSeq(technologies[cur].URL, Listed))
            /\ Len(refs) = 3
            /\ {<<refs[i].Key, refs[i].Attribute>> : i \in 1..Len(refs)}
                  = {<<"a", "href">>, <<"link", "href">>, <<"script", "src">>}

\* C4: for every key k of a mapping-shaped meta field, a string value x
\* yields exactly one meta-tag signature {name k, content [x]}, a sequence
\* yields exactly one whose content is its string elements in order, a value
\* of any other type yields none; the other fields of the record are
\* converted as they are without the meta field, and the run does not abort.
C4_MetaNormalization ==
    (conv \in TechConverters /\ cur # ""
        /\ technologies[cur].Meta.t = "map[string]interface{}") =>
        LET details      == technologies[cur]
            meta         == details.Meta.v
            TagsOf(k)    == LET Named(m) == m.Name = k
                            IN  SelectSeq(rule.MetaTags, Named)
            IsString(x)  == x.t = "string"
            Strings(a)   == LET kept == SelectSeq(a, IsString)
                            IN  [i \in 1..Len(kept) |-> kept[i].v]
            Expected(k)  == CASE meta[k].t = "string"        -> <<<<meta[k].v>>>>
                              [] meta[k].t = "[]interface{}" -> <<Strings(meta[k].v)>>
                              [] OTHER                       -> <<>>
        IN  /\ \A k \in DOMAIN meta :
                  /\ Len(TagsOf(k)) = Len(Expected(k))
                  /\ \A i \in 1..Len(TagsOf(k)) : TagsOf(k)[i].Content = Expected(k)[i]
            /\ \A i \in 1..Len(rule.MetaTags) : rule.MetaTags[i].Name \in DOMAIN meta
            /\ [rule EXCEPT !.MetaTags = <<>>]
                  \in CreatedRules(conv, cur, [details EXCEPT !.Meta = JNull])
            /\ pc # "fatal"

\* A record whose meta object holds an array with a non-string element and a
\* value of another type, and whose other fields are all set, was converted.
C4_Witness ==
    /\ conv \in TechConverters /\ cur # ""
    /\ technologies[cur].Meta.t = "map[string]interface{}"
    /\ LET meta == technologies[cur].Meta.v
       IN  /\ \E k \in DOMAIN meta :
                 /\ meta[k].t = "[]interface{}"
                 /\ \E i \in 1..Len(meta[k].v) : meta[k].v[i].t # "string"
                 /\ \E i \in 1..Len(meta[k].v) : meta[k].v[i].t = "string"
           /\ \E k \in DOMAIN meta : meta[k].t \notin {"string", "[]interface{}"}
    /\ Len(rule.MetaTags) = 1
    /\ technologies[cur].Website # ""
    /\ Len(rule.HTTPHeaderFields) = 3
    /\ Len(rule.PageContentPatterns) > 3
    /\ Len(rule.URLPatterns) = 3

(***************************************************************************)
(* Properties of the bucketing pass.                                       *)
(***************************************************************************)
\* The bucketing pass of a multi-bucket converter is over.
PassOver == conv \in MultiBucket /\ pc \in {"emit", "done"}

\* The entries of a record's category list that resolve.
ResolvingEntries(name) ==
    LET cats == CatsOf(conv, technologies[name])
    IN  {i \in 1..Len(cats) : Lookup(conv, categories, cats[i]) # <<>>}

\* The codes of a record's category list that resolve.
ResolvingCodes(name) ==
    {CatsOf(conv, technologies[name])[i] : i \in ResolvingEntries(name)}

\* The category names the codes of a record resolve to.
ResolvedNames(name) ==
    {Lookup(conv, categories, code)[1] : code \in ResolvingCodes(name)}

\* The rules of a bucket.
RulesOfBucket(category) == rulesets[category].RuleGroups[1].DetectionRules

\* The copies of a record's rule in a bucket.
CopiesIn(category, name) ==
    LET Named(r) == r.ObjectName = name
    IN  SelectSeq(RulesOfBucket(category), Named)

\* The buckets that hold a record's rule.
Holding(name) ==
    {category \in DOMAIN rulesets : CopiesIn(category, name) # <<>>}

RECURSIVE Sum(_, _)
Sum(f, S) ==
    IF S = {} THEN 0
    ELSE LET x == CHOOSE y \in S : TRUE IN f[x] + Sum(f, S \ {x})

\* C2 as stated: after the pass, a record whose category list holds N codes
\* that resolve has its rule in exactly N rulesets.
C2_AsManyRulesetsAsResolvingCodes ==
    PassOver =>
        \A name \in DOMAIN technologies :
            Cardinality(Holding(name)) = Cardinality(ResolvingCodes(name))

\* C2, amended: after the pass, a record whose resolving codes name N
\* distinct categories has its rule in exactly those N rulesets; the loop
\* appended it once per resolving entry of the list, every copy being the one
\* rule createRule returned for the record.
C2_FanOut ==
    PassOver =>
        \A name \in DOMAIN technologies :
            /\ Cardinality(Holding(name)) = Cardinality(ResolvedNames(name))
            /\ Sum([c \in DOMAIN rulesets |-> Len(CopiesIn(c, name))], DOMAIN rulesets)
                  = Cardinality(ResolvingEntries(name))
            /\ \E r \in CreatedRules(conv, name, technologies[name]) :
                  \A c \in Holding(name) :
                      \A i \in 1..Len(CopiesIn(c, name)) : CopiesIn(c, name)[i] = r

\* After a pass, a record with two codes of two different categories is in
\* two rulesets, with the same rule in both.
C2_Witness ==
    /\ PassOver
    /\ \E name \in DOMAIN technologies :
          /\ Cardinality(ResolvingCodes(name)) = 2
          /\ Cardinality(Holding(name)) = 2
          /\ \A c, d \in Holding(name) : CopiesIn(c, name) = CopiesIn(d, name)

\* A step taken during the pass leaves the run in the pass or starts the
\* emission.
PassGoesOn == (pc \in {"range", "cats"}) => (pc' \in {"range", "cats", "emit"})

\* C3: after the pass the rulesets that hold a record's rule are exactly the
\* categories its codes resolve to (an unresolved code adds it nowhere, the
\* other codes are honoured), a bucket exists only for a category some record
\* resolves to, and no step of the pass aborts the run.
C3_BucketsAreResolvedCategories ==
    /\ [](PassOver =>
            /\ \A name \in DOMAIN technologies : Holding(name) = ResolvedNames(name)
            /\ DOMAIN rulesets = UNION {ResolvedNames(name) : name \in DOMAIN technologies})
    /\ [][PassGoesOn]_vars

\* A run ended in success on an input with a record that mixes an unresolved
\* code with a resolved one and a record none of whose codes resolve.
C3_Witness ==
    /\ conv \in MultiBucket
    /\ pc = "done"
    /\ \E name \in DOMAIN technologies :
          /\ ResolvedNames(name) # {}
          /\ Cardinality(ResolvingEntries(name)) < Len(CatsOf(conv, technologies[name]))
          /\ Holding(name) = ResolvedNames(name)
    /\ \E name \in DOMAIN technologies :
          /\ CatsOf(conv, technologies[name]) # <<>>
          /\ ResolvedNames(name) = {}
          /\ Holding(name) = {}

(***************************************************************************)
(* Properties of the line converters.                                      *)
(***************************************************************************)
\* The rules of the single ruleset, once it is initialised.
RulesOfRuleset ==
    IF "RuleGroups" \in DOMAIN ruleset
    THEN ruleset.RuleGroups[1].DetectionRules ELSE <<>>

\* What the scan of one line does to the rules of the ModSecurity ruleset.
ModSecurityLineStep ==
    LET line   == lines[lineIdx']
        parsed == parseModSecurityRule(line)
        before == RulesOfRuleset
        after  == RulesOfRuleset'
    IN  IF lineIdx' = lineIdx THEN after = before
        ELSE /\ lineIdx' = lineIdx + 1
             /\ IF HasPrefix(line, "#") \/ line = "" \/ parsed.UserAgent = ""
                THEN after = before
                ELSE /\ Len(after) = Len(before) + 1
                     /\ SubSeq(after, 1, Len(before)) = before
                     /\ after[Len(after)].RuleName
                           = "detect_modsec_rule_" \o parsed.ID
                     /\ after[Len(after)].HTTPHeaderFields
                           = <<[Key |-> "User-Agent",
                                Value |-> <<parsed.UserAgent>>,
                                Confidence |-> 10]>>

\* C5: in the ModSecurity converter a non-comment, non-empty line produces a
\* rule if and only if a non-empty User-Agent is extracted from it; the rule
\* is named detect_modsec_rule_<id>, <id> being the identifier extracted from
\* the line, and holds exactly one header-field signature
\* {User-Agent, [the extracted User-Agent], 10}; no other step adds a rule.
C5_ModSecurityRules == [][conv = ModSec => ModSecurityLineStep]_vars

\* The scan is over; a line with id:12345 and User-Agent "BadBot" gave the rule
\* detect_modsec_rule_12345, and a line without a User-Agent gave none.
C5_Witness ==
    /\ conv = ModSec
    /\ pc = "write"
    /\ \E i \in 1..Len(lines) :
          /\ ~SkippedLine(lines[i])
          /\ parseModSecurityRule(lines[i]).UserAgent = ""
    /\ Len(RulesOfRuleset) = 1
    /\ RulesOfRuleset[1].RuleName = "detect_modsec_rule_12345"
    /\ RulesOfRuleset[1].HTTPHeaderFields
          = <<[Key |-> "User-Agent", Value |-> <<"BadBot">>, Confidence |-> 10]>>

\* The data lines the favicon scan loop has read that csv.Reader splits into
\* exactly 3 fields.
ThreeFields(line) == ~csvRead(line).err /\ Len(csvRead(line).fields) = 3

DataLinesRead == SubSeq(lines, 2, lineIdx)

\* t is s with every space replaced by an underscore and every upper-case
\* letter by its lower-case one.
IsRuleNameOf(t, s) ==
    /\ Len(t) = Len("detect_") + Len(s)
    /\ SubSeq(t, 1, Len("detect_")) = "detect_"
    /\ \A i \in 1..Len(s) :
          LET c == CharAt(s, i)
              d == CharAt(t, Len("detect_") + i)
          IN  IF c = " " THEN d = "_"
              ELSE IF \E j \in 1..Len(Upper) : CharAt(Upper, j) = c
                   THEN \E j \in 1..Len(Upper) :
                            CharAt(Upper, j) = c /\ CharAt(Lower, j) = d
                   ELSE d = c

\* The rule is the favicon rule of a line of 3 fields.
IsFaviconRuleOf(r, line) ==
    LET fields == csvRead(line).fields
    IN  /\ IsRuleNameOf(r.RuleName, Trim(fields[3], "\""))
        /\ Len(r.PageContentPatterns) = 1
        /\ r.PageContentPatterns[1].MD5Hash = <<Trim(fields[2], "\"")>>
        /\ r.PageContentPatterns[1].Signature = <<>>
        /\ r.PageContentPatterns[1].Text = <<>>
        /\ r.HTTPHeaderFields = <<>>
        /\ r.MetaTags = <<>>
        /\ r.SSLSignatures = <<>>
        /\ r.Implies = <<>>

\* C6 as stated: the first line is skipped, and every later line with
\* exactly 3 comma-separated fields produces exactly one rule, named after
\* its description, whose only signature is one page-content signature with
\* the MD5-hash list [md5].
C6_EveryThreeFieldLineYieldsARule ==
    conv = Favicon =>
        LET data == SelectSeq(DataLinesRead, ThreeFields)
        IN  /\ Len(RulesOfRuleset) = Len(data)
            /\ \A i \in 1..Len(RulesOfRuleset) :
                  IsFaviconRuleOf(RulesOfRuleset[i], data[i])

\* C6, amended: the first line is skipped, and every later line that does
\* not start with # and has exactly 3 comma-separated fields produces
\* exactly one rule, named after its description, whose only signature is
\* one page-content signature with the MD5-hash list [md5].
C6_FaviconRules ==
    conv = Favicon =>
        LET Data(line) == ~HasPrefix(line, "#") /\ ThreeFields(line)
            data       == SelectSeq(DataLinesRead, Data)
        IN  /\ Len(RulesOfRuleset) = Len(data)
            /\ \A i \in 1..Len(RulesOfRuleset) :
                  IsFaviconRuleOf(RulesOfRuleset[i], data[i])

\* The scan is over: the first line, a row of 3 fields, gave no rule, and the
\* row "1","abc123","Drupal" after it gave the rule detect_drupal.
C6_Witness ==
    /\ conv = Favicon
    /\ pc = "write"
    /\ Len(lines) >= 2
    /\ ThreeFields(lines[1])
    /\ Len(RulesOfRuleset) = 1
    /\ RulesOfRuleset[1].RuleName = "detect_drupal"
    /\ RulesOfRuleset[1].PageContentPatterns[1].MD5Hash = <<"abc123">>

(***************************************************************************)
(* Properties of the emission loop and of the rulesets.                    *)
(***************************************************************************)
\* A step that ends the run in a fatal error while files are being written
\* writes no later ruleset and leaves every file written before as it was.
AbortKeepsFiles ==
    (pc \in {"emit", "write"} /\ pc' = "fatal") =>
        /\ pending' = pending
        /\ \A f \in DOMAIN disk :
              disk[f].complete => f \in DOMAIN disk' /\ disk'[f] = disk[f]

\* Nothing is done after a fatal error.
FatalIsFinal == pc # "fatal"

SignatureLists ==
    {"HTTPHeaderFields", "MetaTags", "PageContentPatterns", "URLPatterns"}

AllTen(r) ==
    \A list \in SignatureLists \cap DOMAIN r :
        \A i \in 1..Len(r[list]) : r[list][i].Confidence = 10

AllTenIn(rs) ==
    \A g \in 1..Len(rs.RuleGroups) :
        \A i \in 1..Len(rs.RuleGroups[g].DetectionRules) :
            AllTen(rs.RuleGroups[g].DetectionRules[i])

\* C8: every signature of every detection rule of every ruleset a converter
\* builds, in memory or written out, has confidence 10.
C8_ConfidenceIsTen ==
    /\ AllTen(rule)
    /\ \A category \in DOMAIN rulesets : AllTenIn(rulesets[category])
    /\ "RuleGroups" \in DOMAIN ruleset => AllTenIn(ruleset)
    /\ \A f \in DOMAIN disk : AllTenIn(disk[f].ruleset)

\* A ruleset was written that holds a rule with signatures of all four kinds.
C8_Witness ==
    \E f \in DOMAIN disk :
        /\ disk[f].complete
        /\ \E i \in 1..Len(disk[f].ruleset.RuleGroups[1].DetectionRules) :
              LET r == disk[f].ruleset.RuleGroups[1].DetectionRules[i]
              IN  /\ SignatureLists \subseteq DOMAIN r
                  /\ \A list \in SignatureLists : r[list] # <<>>
                  /\ AllTen(r)

\* t is s with every character of the set replaced by the character to.
CharsReplaced(t, s, set, to) ==
    /\ Len(t) = Len(s)
    /\ \A i \in 1..Len(s) :
          CharAt(t, i) = IF CharAt(s, i) \in set THEN to ELSE CharAt(s, i)

\* Every ruleset of the map has one enabled RuleGroup.
OneEnabledGroup ==
    \A category \in DOMAIN rulesets :
        /\ Len(rulesets[category].RuleGroups) = 1
        /\ rulesets[category].RuleGroups[1].IsEnabled

\* A step creates a bucket with the rule in hand as its only rule, or
\* appends the rule in hand to the one group of a bucket, or leaves the
\* bucket alone; no bucket goes away.
BucketStep ==
    /\ DOMAIN rulesets \subseteq DOMAIN rulesets'
    /\ \A category \in DOMAIN rulesets' :
          IF category \in DOMAIN rulesets
          THEN \/ rulesets'[category] = rulesets[category]
               \/ /\ pc = "cats"
                  /\ rulesets'[category]
                        = [rulesets[category] EXCEPT
                              !.RuleGroups[1].DetectionRules = Append(@, rule)]
          ELSE /\ pc = "cats"
               /\ rulesets'[category].RuleGroups[1].DetectionRules = <<rule>>

\* C9 as stated: a bucket's ruleset is named detect_<category>_ruleset and
\* has one enabled RuleGroup, in each multi-bucket converter.
C9_NamedAfterCategory ==
    /\ OneEnabledGroup
    /\ \A category \in DOMAIN rulesets :
          rulesets[category].RulesetName = "detect_" \o category \o "_ruleset"

\* The name of the ruleset of a category: in the category-aware converter
\* the spaces of the category are underscores in the name.
IsRulesetNameOf(t, c, category) ==
    LET pre == "detect_"
        suf == "_ruleset"
    IN  /\ Len(t) = Len(pre) + Len(category) + Len(suf)
        /\ SubSeq(t, 1, Len(pre)) = pre
        /\ SubSeq(t, Len(t) - Len(suf) + 1, Len(t)) = suf
        /\ CharsReplaced(SubSeq(t, Len(pre) + 1, Len(t) - Len(suf)), category,
                         IF c = TechCat THEN {" "} ELSE {}, "_")

\* C9, amended: the first rule that resolves to a category creates the
\* bucket's ruleset, named detect_<category>_ruleset (with the spaces of the
\* category replaced by underscores in the category-aware converter) and
\* holding one enabled RuleGroup; every later rule of the category is
\* appended to that group, and at every point each ruleset has exactly one
\* RuleGroup.
C9_OneGroupPerBucket ==
    /\ [](/\ OneEnabledGroup
          /\ \A category \in DOMAIN rulesets :
                IsRulesetNameOf(rulesets[category].RulesetName, conv, category))
    /\ [][BucketStep]_vars

\* The category-aware converter put the rules of two records in the one
\* group of the bucket "Web frameworks", named detect_Web_frameworks_ruleset.
C9_Witness ==
    /\ conv = TechCat
    /\ "Web frameworks" \in DOMAIN rulesets
    /\ rulesets["Web frameworks"].RulesetName = "detect_Web_frameworks_ruleset"
    /\ Len(rulesets["Web frameworks"].RuleGroups) = 1
    /\ Len(RulesOfBucket("Web frameworks")) = 2
    /\ RulesOfBucket("Web frameworks")[1].ObjectName
          # RulesOfBucket("Web frameworks")[2].ObjectName

\* f is out/detect-<c>-ruleset.yaml, <c> being the category with every
\* space, slash and backslash replaced by a hyphen in the category-aware
\* converter and the category unchanged in the static-table converters.
IsPathOf(f, c, out, category) ==
    LET pre == out \o "/detect-"
        suf == "-ruleset.yaml"
    IN  /\ Len(f) = Len(pre) + Len(category) + Len(suf)
        /\ SubSeq(f, 1, Len(pre)) = pre
        /\ SubSeq(f, Len(f) - Len(suf) + 1, Len(f)) = suf
        /\ CharsReplaced(SubSeq(f, Len(pre) + 1, Len(f) - Len(suf)), category,
                         IF c = TechCat THEN {" ", "/", "\\"} ELSE {}, "-")

\* The buckets the emission loop has written.
WrittenBuckets ==
    IF pc \in {"emit", "done", "fatal"} THEN DOMAIN rulesets \ pending ELSE {}

\* C10: a bucket is written to <output-dir>/detect-<c>-ruleset.yaml, where
\* <c> is the category with every space, slash and backslash replaced by a
\* hyphen in the category-aware converter, and the category unchanged in the
\* two static-table converters; no other file is written.
C10_OutputPaths ==
    conv \in MultiBucket =>
        /\ \A category \in WrittenBuckets :
              \E f \in DOMAIN disk : IsPathOf(f, conv, outPath, category)
        /\ \A f \in DOMAIN disk :
              \E category \in DOMAIN rulesets : IsPathOf(f, conv, outPath, category)

(***************************************************************************)
(* Properties of the bucketing pass as a function of its input sequence.   *)
(***************************************************************************)
\* How many entries of a record's category list resolve to the category.
EntriesFor(category, name) ==
    Cardinality({i \in ResolvingEntries(name) :
        Lookup(conv, categories, CatsOf(conv, technologies[name])[i])[1] = category})

\* The rule list a sequence of (name, rule) pairs gives a category: for each
\* pair in order, its rule once per entry of its list resolving there.
RECURSIVE MembersOf(_, _)
MembersOf(category, pairs) ==
    IF pairs = <<>> THEN <<>>
    ELSE LET last == pairs[Len(pairs)]
         IN  MembersOf(category, SubSeq(pairs, 1, Len(pairs) - 1))
             \o [i \in 1..EntriesFor(category, last.name) |-> last.rule]

\* The categories a sequence of (name, rule) pairs gives a bucket.
BucketsOf(pairs) ==
    UNION {ResolvedNames(pairs[i].name) : i \in 1..Len(pairs)}

\* The loop is between two records, or over.
BetweenRecords == conv \in MultiBucket /\ pc \in {"range", "emit", "done"}

\* C11: the buckets and the rule list of each bucket are a function of the
\* sequence of (name, rule) pairs the pass was given, in their order, and
\* of nothing else (not of the clock): two passes over one sequence end with
\* the same set of buckets and the same rule membership in each.
C11_BucketingIsAFunctionOfTheSequence ==
    BetweenRecords =>
        /\ DOMAIN rulesets = BucketsOf(visited)
        /\ \A category \in DOMAIN rulesets :
              RulesOfBucket(category) = MembersOf(category, visited)

\* The pass is over two records that share a bucket, and the clock ticked
\* during it.
C11_Witness ==
    /\ PassOver
    /\ Len(visited) = 2
    /\ now = 1
    /\ \E category \in DOMAIN rulesets :
          /\ Len(RulesOfBucket(category)) = 2
          /\ RulesOfBucket(category) = <<visited[1].rule, visited[2].rule>>

(***************************************************************************)
(* Outcomes of a run.                                                      *)
(***************************************************************************)
\* main returned (exit code 0); log.Fatalf ended the process (exit code 1).
Success == pc = "done"
Fatal   == pc = "fatal"

\* The input was read and decoded to its end.
InputConsumed ==
    IF conv \in MultiBucket
    THEN todo = {} /\ {visited[i].name : i \in 1..Len(visited)} = DOMAIN technologies
    ELSE lineIdx = Len(lines)

\* Every ruleset file was created and written whole.
AllFilesWritten ==
    IF conv \in MultiBucket
    THEN /\ pending = {}
         /\ \A category \in DOMAIN rulesets :
               /\ FileName(conv, outPath, category) \in DOMAIN disk
               /\ disk[FileName(conv, outPath, category)].complete
    ELSE /\ SingleFileName(conv, outPath) \in DOMAIN disk
         /\ disk[SingleFileName(conv, outPath)] = Written(ruleset)

\* A parse error has happened: a line the favicon scan loop has read, not a
\* comment, fails CSV parsing.  (JSON decode errors and write errors leave
\* the run in Fatal by the step that meets them.)
LineParseError ==
    /\ conv = Favicon
    /\ \E i \in 2..lineIdx : ~SkippedLine(lines[i]) /\ csvRead(lines[i]).err

\* A write error has happened: a file was left half written.
WriteError == \E f \in DOMAIN disk : ~disk[f].complete

\* No step is taken after the end of the run.
RunGoesOn == pc \notin {"done", "fatal"}

\* C12 as stated: a run that met a read, parse or write error has aborted;
\* success is reached only without one.
C12_AnyParseErrorIsFatal ==
    (LineParseError \/ WriteError) => Fatal

\* C12, amended: every run ends, in success or in a fatal abort and in
\* nothing else; success is reached only when the input was read and
\* decoded to its end and every ruleset file was created and written; a
\* write error leaves the run aborted, and nothing is done after the end.
\* (A line of the favicon input that fails CSV parsing is no such error: the
\* run goes on past it.)
C12_TwoOutcomes ==
    /\ <>(Success \/ Fatal)
    /\ [](Success => InputConsumed /\ AllFilesWritten)
    /\ [](WriteError => Fatal)
    /\ [][RunGoesOn]_vars

\* A favicon run ended in success, its file written, past a line that
\* failed CSV parsing.
C12_Witness ==
    /\ Success
    /\ LineParseError
    /\ InputConsumed
    /\ AllFilesWritten

(***************************************************************************)
(* The documents on disk.                                                  *)
(***************************************************************************)
CompleteFiles == {f \in DOMAIN disk : disk[f].complete}

\* The rules of the ruleset in a file.
RulesIn(f) == disk[f].ruleset.RuleGroups[1].DetectionRules
RuleNodesIn(f) == disk[f].document["rule_groups"][1]["detection_rules"]

C13_EmptyRuleList ==
    \E f \in CompleteFiles : RulesIn(f) = <<>> /\ RuleNodesIn(f) = <<>>

(***************************************************************************)
(* Lines of the favicon input that give no rule.                           *)
(***************************************************************************)
\* A line the scan loop neither skips as a comment or an empty line nor
\* rejects: the CSV reader splits it into exactly 3 fields.
ValidLine(line) == ~SkippedLine(line) /\ ThreeFields(line)

\* A line that fails CSV parsing or has not exactly 3 fields.
InvalidLine(line) == ~SkippedLine(line) /\ ~ThreeFields(line)

\* An iteration of the scan loop: the run is not aborted; a valid line adds
\* one rule at the end of the list, any other line leaves the ruleset as it
\* was.
FaviconLineStep ==
    pc = "scan" /\ lineIdx' = lineIdx + 1 =>
        /\ pc' = "scan"
        /\ IF ValidLine(lines[lineIdx + 1])
           THEN /\ Len(RulesOfRuleset') = Len(RulesOfRuleset) + 1
                /\ SubSeq(RulesOfRuleset', 1, Len(RulesOfRuleset)) = RulesOfRuleset
                /\ RulesOfRuleset'[Len(RulesOfRuleset')].ObjectName
                      = Trim(csvRead(lines[lineIdx + 1]).fields[3], "\"")
           ELSE ruleset' = ruleset

ValidLinesAfterHeader == {i \in 2..Len(lines) : ValidLine(lines[i])}

\* C14: in the favicon converter a data line that fails CSV parsing or has
\* not exactly 3 fields gives no rule and does not abort the run, every
\* valid line gives its rule whatever came before it, and the ruleset
\* written has as many rules as there are valid lines after the header.
C14_InvalidLinesAreSkipped ==
    /\ [][conv = Favicon => FaviconLineStep]_vars
    /\ [](conv = Favicon /\ pc = "done" =>
             Len(RulesOfRuleset) = Cardinality(ValidLinesAfterHeader))

\* The run is over: a line that fails CSV parsing came before a valid line,
\* and the valid line gave the only rule.
C14_Witness ==
    /\ conv = Favicon
    /\ pc = "done"
    /\ Len(lines) = 3
    /\ csvRead(lines[2]).err
    /\ ValidLine(lines[3])
    /\ Len(RulesOfRuleset) = 1

\* The same with a line of two fields before the valid line.
C14_TwoFieldsWitness ==
    /\ conv = Favicon
    /\ pc = "done"
    /\ Len(lines) = 3
    /\ ~csvRead(lines[2]).err /\ Len(csvRead(lines[2]).fields) = 2
    /\ ValidLine(lines[3])
    /\ Len(RulesOfRuleset) = 1

(***************************************************************************)
(* Emission comes after the whole input.                                   *)
(***************************************************************************)
\* The phases of main before the first os.Create.
BeforeEmission == pc \in {"read", "decode", "range", "cats", "header", "scan"}

\* Every record was normalized and bucketed, every line scanned.
WholeInputBucketed ==
    /\ InputConsumed
    /\ conv \in MultiBucket => rule = NoRule \/ pc \in {"emit", "done", "fatal"}

\* C15: no output file is created before every input record has been
\* normalized and bucketed: a step taken before the emission phase leaves
\* the files as they are, also the step of a read error, a JSON decode error
\* or a line-scanner error that aborts the run, and a file exists only once
\* the whole input was consumed.
C15_EmissionComesLast ==
    /\ [][BeforeEmission => disk' = disk]_vars
    /\ [](BeforeEmission => disk = <<>>)
    /\ [](disk # <<>> => WholeInputBucketed)

\* A line-scanner error aborted the run in the middle of the input, and
\* there is no file.
C15_Witness ==
    /\ conv \in SingleBucket
    /\ pc = "fatal"
    /\ lineIdx >= 1
    /\ lineIdx < Len(lines)
    /\ disk = <<>>

\* A JSON decode error aborted the run, and there is no file.
C15_DecodeErrorWitness ==
    /\ conv \in MultiBucket
    /\ pc = "fatal"
    /\ visited = <<>>
    /\ DOMAIN technologies # {}
    /\ disk = <<>>

(***************************************************************************)
(* Buckets grow at their end only.                                         *)
(***************************************************************************)
\* The metadata of a ruleset: all of it but the rules of its group.
MetadataOf(rs) ==
    [RulesetName   |-> rs.RulesetName,
     FormatVersion |-> rs.FormatVersion,
     Author        |-> rs.Author,
     CreatedAt     |-> rs.CreatedAt,
     Description   |-> rs.Description,
     Groups        |-> [g \in DOMAIN rs.RuleGroups |->
                           <<rs.RuleGroups[g].GroupName, rs.RuleGroups[g].IsEnabled>>]]

IsPrefix(s, t) == Len(s) <= Len(t) /\ SubSeq(t, 1, Len(s)) = s

\* A step of the pass: every bucket is still there with its metadata and its
\* rules, in their order, at the head of its list; at most one bucket got a
\* rule, one rule, at its end.
AppendOnlyStep ==
    /\ \A category \in DOMAIN rulesets :
          /\ category \in DOMAIN rulesets'
          /\ MetadataOf(rulesets'[category]) = MetadataOf(rulesets[category])
          /\ IsPrefix(RulesOfBucket(category), RulesOfBucket(category)')
          /\ Len(RulesOfBucket(category)') <= Len(RulesOfBucket(category)) + 1
    /\ Cardinality({category \in DOMAIN rulesets' :
                       \/ category \notin DOMAIN rulesets
                       \/ rulesets'[category] # rulesets[category]}) <= 1
    /\ \A category \in DOMAIN rulesets' \ DOMAIN rulesets :
          Len(RulesOfBucket(category)') = 1

\* C16: during the bucketing pass a bucket's rule list changes only by an
\* append at its end: the step leaves the rules already in the bucket, the
\* bucket's metadata and every other bucket as they were, and removes or
\* reorders nothing.
C16_AppendOnly ==
    [][(conv \in MultiBucket /\ pc \in {"range", "cats"}) => AppendOnlyStep]_vars

\* The pass has put a second rule, another one, in a bucket while another
\* bucket exists, and the clock ticked since the run began.
C16_Witness ==
    /\ conv \in MultiBucket
    /\ pc \in {"range", "cats"}
    /\ now = 1
    /\ \E category \in DOMAIN rulesets :
          /\ Len(RulesOfBucket(category)) = 2
          /\ RulesOfBucket(category)[1] # RulesOfBucket(category)[2]
          /\ DOMAIN rulesets # {category}

(***************************************************************************)
(* The order of the rules of a group.                                      *)
(***************************************************************************)
\* The lines the scan loop has read that gave a rule, by their numbers in
\* the file, in increasing order.
RECURSIVE RuleLines(_)
RuleLines(n) ==
    IF n = 0 \/ (conv = Favicon /\ n = 1) THEN <<>>
    ELSE RuleLines(n - 1)
         \o (IF LineRules[conv][lines[n]] = <<>> THEN <<>> ELSE <<n>>)

\* The rules are those of the lines read, line after line.
InLineOrder ==
    LET origin == RuleLines(lineIdx)
    IN  /\ Len(RulesOfRuleset) = Len(origin)
        /\ \A p \in 1..Len(origin) :
              RulesOfRuleset[p] = LineRules[conv][lines[origin[p]]][1]
        /\ \A p, q \in 1..Len(origin) : p < q <=> origin[p] < origin[q]

\* The place in the visiting order of the record a rule was made from.
VisitOf(r) == CHOOSE k \in 1..Len(visited) : visited[k].rule = r

\* The rules of every bucket come from records the loop has visited, a rule
\* of a record visited earlier before a rule of a record visited later.
InVisitOrder ==
    \A category \in DOMAIN rulesets :
        /\ \A p \in 1..Len(RulesOfBucket(category)) :
              \E k \in 1..Len(visited) : visited[k].rule = RulesOfBucket(category)[p]
        /\ \A p, q \in 1..Len(RulesOfBucket(category)) :
              p < q => VisitOf(RulesOfBucket(category)[p])
                          <= VisitOf(RulesOfBucket(category)[q])

\* C17: the rules of a group are in the order their source records were
\* processed: in the favicon and ModSecurity converters in the order of
\* their lines in the file, in the JSON converters, bucket by bucket, in the
\* order the range loop visited the records.
C17_ProcessingOrder ==
    /\ conv \in SingleBucket /\ pc \in {"scan", "write", "done"} => InLineOrder
    /\ conv \in MultiBucket /\ pc \in {"range", "cats", "emit", "done"} => InVisitOrder

\* A favicon run is over with two rules, of the second and the third line,
\* which differ.
C17_Witness ==
    /\ conv = Favicon
    /\ pc = "done"
    /\ Len(lines) = 3
    /\ Len(RulesOfRuleset) = 2
    /\ RulesOfRuleset[1] # RulesOfRuleset[2]
    /\ RulesOfRuleset[1] = RulesOf(conv, lines[2])[1]

\* A pass is over with a bucket of two rules of two records.
C17_VisitOrderWitness ==
    /\ PassOver
    /\ \E category \in DOMAIN rulesets :
          /\ Len(RulesOfBucket(category)) = 2
          /\ VisitOf(RulesOfBucket(category)[1]) = 1
          /\ VisitOf(RulesOfBucket(category)[2]) = 2

(***************************************************************************)
(* Rule names.                                                             *)
(***************************************************************************)
\* The rule is named after the input, and its object name is the input.
IsNamedAfter(r, input) ==
    /\ IsRuleNameOf(r.RuleName, input)
    /\ r.ObjectName = input

\* The range loop of a JSON converter visits a record: the rule it makes is
\* named after the name of the record.
NamedWhenVisited ==
    (conv \in MultiBucket /\ Len(visited') = Len(visited) + 1) =>
        IsNamedAfter(visited'[Len(visited')].rule, visited'[Len(visited')].name)

\* The favicon scan loop makes a rule of a line: it is named after the third
\* field of the line, trimmed of its quotes.
NamedWhenScanned ==
    (conv = Favicon /\ pc = "scan" /\ Len(RulesOfRuleset') > Len(RulesOfRuleset)) =>
        /\ lineIdx' = lineIdx + 1
        /\ IsNamedAfter(RulesOfRuleset'[Len(RulesOfRuleset')],
                        Trim(csvRead(lines[lineIdx']).fields[3], "\""))

\* C18: the rule made from a technology name (JSON converters) or from a
\* favicon description is named detect_ followed by the input, character by
\* character, a space as an underscore, an upper-case letter as its
\* lower-case letter, any other character as it is; its object name is the
\* input unchanged.
C18_RuleNaming == [][NamedWhenVisited /\ NamedWhenScanned]_vars

\* The loop has made the rule of the technology jQuery-3.7_x.
C18_Witness ==
    /\ conv \in MultiBucket
    /\ \E k \in 1..Len(visited) :
          /\ visited[k].name = "jQuery-3.7_x"
          /\ visited[k].rule.RuleName = "detect_jquery-3.7_x"
          /\ visited[k].rule.ObjectName = "jQuery-3.7_x"

\* The favicon scan has made the rule of a description with two spaces in
\* a row.
C18_FaviconWitness ==
    /\ conv = Favicon
    /\ \E p \in 1..Len(RulesOfRuleset) :
          /\ RulesOfRuleset[p].ObjectName = "Word  Press 2.0"
          /\ RulesOfRuleset[p].RuleName = "detect_word__press_2.0"

(***************************************************************************)
(* Header-field signatures of the TechJSON converters.                     *)
(***************************************************************************)
\* The places of the list, among those of the set, that hold the signature
\* of the entry k of the map m.
PlacesOf(fields, places, m, k) ==
    {i \in places : fields[i].Key = k /\ fields[i].Value = <<m[k]>>}

\* C19: the header-field list of a rule of a TechJSON converter has one
\* entry for each header and one for each cookie, |headers| + |cookies| in
\* all, each of a key, a list of the one value and the confidence 10 and of
\* nothing that tells a cookie from a header; a key of both maps has two
\* entries.
C19_HeadersAndCookies ==
    (conv \in TechConverters /\ cur # "") =>
        LET headers == technologies[cur].Headers
            cookies == technologies[cur].Cookies
            fields  == rule.HTTPHeaderFields
            nh      == Cardinality(DOMAIN headers)
            nc      == Cardinality(DOMAIN cookies)
        IN  /\ Len(fields) = nh + nc
            /\ \A k \in DOMAIN headers :
                  Cardinality(PlacesOf(fields, 1..nh, headers, k)) = 1
            /\ \A k \in DOMAIN cookies :
                  Cardinality(PlacesOf(fields, (nh + 1)..(nh + nc), cookies, k)) = 1
            /\ \A i \in 1..Len(fields) :
                  /\ DOMAIN fields[i] = {"Key", "Value", "Confidence"}
                  /\ Len(fields[i].Value) = 1
                  /\ fields[i].Confidence = 10
            /\ \A k \in DOMAIN headers \cap DOMAIN cookies :
                  Cardinality({i \in 1..Len(fields) : fields[i].Key = k}) = 2

\* The rule of a record of one header and two cookies, one of them under
\* the key of the header, has three entries, two of them of that key.
C19_Witness ==
    /\ conv \in TechConverters
    /\ cur # ""
    /\ DOMAIN technologies[cur].Headers = {"Server"}
    /\ DOMAIN technologies[cur].Cookies = {"Server", "sid"}
    /\ Len(rule.HTTPHeaderFields) = 3
    /\ Cardinality({i \in 1..3 : rule.HTTPHeaderFields[i].Key = "Server"}) = 2

(***************************************************************************)
(* Signatures of the BuiltWith converter.                                  *)
(***************************************************************************)
\* C20: the rule of a BuiltWith record has one header-field signature for
\* each entry of patterns.headers; for a non-empty patterns.html one
\* page-content signature, of key body, with the pattern as its only free
\* text and no substring value, and none for an empty one; for a non-empty
\* patterns.url one URL micro-signature of that value, and none for an empty
\* one; it has no meta-tag signature.
C20_BuiltWithSignatures ==
    (conv = BuiltWith /\ cur # "") =>
        LET patterns == technologies[cur].Patterns
            fields   == rule.HTTPHeaderFields
            content  == rule.PageContentPatterns
            urls     == rule.URLPatterns
        IN  /\ Len(fields) = Cardinality(DOMAIN patterns.Headers)
            /\ \A k \in DOMAIN patterns.Headers :
                  Cardinality({i \in 1..Len(fields) :
                      fields[i].Key = k /\ fields[i].Value = <<patterns.Headers[k]>>}) = 1
            /\ IF patterns.HTML = "" THEN content = <<>>
               ELSE /\ Len(content) = 1
                    /\ content[1].Key = "body"
                    /\ content[1].Text = <<patterns.HTML>>
                    /\ content[1].Signature = <<>>
            /\ IF patterns.URL = "" THEN urls = <<>>
               ELSE /\ Len(urls) = 1
                    /\ urls[1].Signature = patterns.URL
            /\ rule.MetaTags = <<>>

\* The rule of a record of two headers, an HTML pattern and a URL pattern.
C20_Witness ==
    /\ conv = BuiltWith
    /\ cur # ""
    /\ Cardinality(DOMAIN technologies[cur].Patterns.Headers) = 2
    /\ Len(rule.HTTPHeaderFields) = 2
    /\ Len(rule.PageContentPatterns) = 1
    /\ Len(rule.URLPatterns) = 1
    /\ rule.PageContentPatterns[1].Text = <<"<meta wp>">>
    /\ rule.URLPatterns[1].Signature = "/wp-"

\* The rule of a record with no pattern at all has no signature.
C20_NoPatternWitness ==
    /\ conv = BuiltWith
    /\ cur # ""
    /\ technologies[cur].Patterns = [URL |-> "", HTML |-> "", Headers |-> <<>>]
    /\ rule.HTTPHeaderFields = <<>>
    /\ rule.PageContentPatterns = <<>>
    /\ rule.URLPatterns = <<>>

(***************************************************************************)
(* A record's rule in a bucket.                                            *)
(***************************************************************************)
\* The places of a bucket's rule list that hold the rule of the record.
PlacesOfRecord(category, name) ==
    {p \in 1..Len(RulesOfBucket(category)) :
        RulesOfBucket(category)[p].ObjectName = name}

\* C21: in every ruleset of a multi-bucket converter the rule of one
\* technology record is in the rule list at most once, whatever the
\* category list of the record.
C21_RuleAtMostOncePerBucket ==
    conv \in MultiBucket =>
        \A category \in DOMAIN rulesets : \A name \in DOMAIN technologies :
            Cardinality(PlacesOfRecord(category, name)) <= 1

NoneResolves == \A name \in DOMAIN technologies : ResolvingEntries(name) = {}

\* Every bucket, and every ruleset in a file, has one group of at least one
\* rule.
NoEmptyBucket ==
    /\ \A category \in DOMAIN rulesets :
          /\ Len(rulesets[category].RuleGroups) = 1
          /\ Len(RulesOfBucket(category)) >= 1
    /\ \A f \in DOMAIN disk :
          /\ Len(disk[f].ruleset.RuleGroups) = 1
          /\ Len(disk[f].ruleset.RuleGroups[1].DetectionRules) >= 1

\* C23: in the three multi-bucket converters a bucket exists only with a
\* rule in it: after every step of the bucketing pass and in every file
\* written the one group of each ruleset holds at least one rule; an input
\* of which no record resolves to a category gives no bucket and no file,
\* and its run ends and, once the input is decoded, cannot fail: it ends in
\* success.
C23_NoEmptyBucket ==
    /\ [](conv \in MultiBucket => NoEmptyBucket)
    /\ [](conv \in MultiBucket /\ NoneResolves /\ pc \in {"range", "cats", "emit", "done"} =>
             rulesets = <<>> /\ pending = {} /\ disk = <<>>)
    /\ [][(conv \in MultiBucket /\ NoneResolves /\ pc \in {"range", "cats", "emit"}) =>
             pc' # "fatal"]_vars
    /\ <>((conv \in MultiBucket /\ NoneResolves) => (Success \/ Fatal))

\* A run over a record whose only category code is in no table ended in
\* success with no file.
C23_Witness ==
    /\ conv \in MultiBucket
    /\ pc = "done"
    /\ Len(visited) >= 1
    /\ \E name \in DOMAIN technologies : CatsOf(conv, technologies[name]) # <<>>
    /\ NoneResolves
    /\ disk = <<>>

\* A bucket was made and has its first rule while the inner loop goes on.
C23_FirstRuleWitness ==
    /\ conv \in MultiBucket
    /\ pc = "cats"
    /\ \E category \in DOMAIN rulesets : Len(RulesOfBucket(category)) = 1

====
